---- MODULE Spec2Model ----
(***************************************************************************)
(* Call-event deduplication, target resolution, pipeline orchestration,    *)
(* speaker-role classification and the call webhook of the                 *)
(* voice-transcription service (main.py, services/amocrm.py,               *)
(* services/transcription.py).                                             *)
(*                                                                         *)
(* A run is one background task executing process_call.  Each action is    *)
(* one awaited call of the run together with the synchronous code that     *)
(* follows it up to the next await.  is_already_processed is modelled step *)
(* by step (acquire, membership test, insert, release) so that the role of *)
(* PROCESSED_LOCK is visible.                                              *)
(***************************************************************************)
EXTENDS Integers, Sequences, FiniteSets, TLC

\* ------------------------------------------------------------ bounds ----
Runs == {"r1", "r2", "r3"}          \* background tasks running process_call
PipeRuns == {"r1", "r2"}            \* two runs going through the pipeline together
OneRun == {"r1"}                    \* a run going through the pipeline alone
NoRun == "none"

\* record_url values of the tracked deliveries
Urls == {"https://rec/a", "https://rec/b", "uploaded://c"}
PlainUrls == {"https://rec/a", "https://rec/b"}

\* main.py:385  params.get("link") when the note carries a JSON array there:
\* a non-empty list is truthy and can be sliced (main.py:388-392), and it
\* cannot be a member of a set
ListUrl == "[https://rec/a]"

\* main.py:43  `if len(PROCESSED_CALLS) > 1000`
CacheLimit == 1000

\* ids of the CRM: the contact of the contact events, the deals
ContactId == 1
MaxDealId == 3
DealIds == 1..MaxDealId
LeadEventIds == {1, 2}
None == 0

\* amocrm.py:431-434
CLOSED_STATUSES == {142, 143}
StatusIds == {100, 142, 143}

\* main.py:166 and main.py:174
MinAudioBytes == 10000
MinTextChars == 50
AudioSizes == {MinAudioBytes - 1, MinAudioBytes, MinAudioBytes + 1}
TextSizes == {0, MinTextChars - 1, MinTextChars, MinTextChars + 1}

Ops == {"get_contact", "links", "lead", "create_lead", "get_user", "download",
        "transcribe", "analyze", "add_note", "telegram"}

VARIABLES
    PROCESSED_CALLS,   \* main.py:33, the members that are tracked record_urls
    strangers,         \* main.py:33, number of members that are other record_urls
    PROCESSED_LOCK,    \* main.py:34, the run holding the lock, or NoRun
    pc,                \* per run: the await it is suspended at / its outcome
    args,              \* per run: the arguments process_call was started with
    dup,               \* per run: the value is_already_processed returned, as text
    unseen,            \* history: per url, False results since the last clear
    clears,            \* history: has PROCESSED_CALLS.clear() been executed
    links,             \* CRM: ids of the deals linked to the contact, in listing order
    status,            \* CRM: status_id of every deal (None: no such deal)
    lead_ids,          \* per run: amocrm.py:453, the listing the run iterates over
    idx,               \* per run: position of the loop of amocrm.py:466
    lead_id,           \* per run: main.py:115, the id the note goes to
    target_entity_type,\* per run: main.py:116
    note,              \* CRM: per run, the entity its note was written to
    calls,             \* history: per run, how often each collaborator was invoked
    resolved,          \* history: per run, what get_or_create_lead_for_contact returned
    created,           \* history: per run, the deal its create_lead_for_contact created
    lastRead,          \* history: per run, the last deal status it read
    stages,            \* history: per run, the pipeline stages it started, in order
    raised,            \* history: per run, the call that raised an exception
    audio_data,        \* per run: main.py:164, len(audio_data)
    full_text,         \* per run: main.py:172, len(transcription.full_text)
    sent,              \* per run: the messages it sent to the operator channel
    result_text,       \* per run: analysis.py:214/234, what the analysis model answered
    earlier,           \* per run: the runs that had ended when it was scheduled
    event_loop,        \* the run whose synchronous call occupies the event loop
    fn_pc,             \* which of the functions of analysis.py has been applied
    value,             \* analysis.py:25, the argument of _normalize_list_field
    items,             \* analysis.py:25-49, what _normalize_list_field returned
    result_json,       \* analysis.py:215/235, the parsed answer of the model
    analysis,          \* analysis.py:242-253, the CallAnalysis
    note_args,         \* analysis.py:268-269, call_type and duration_seconds
    note_text,         \* analysis.py:284-302, the lines of the note
    speakers,          \* transcription.py:155, the argument of identify_roles
    roles,             \* transcription.py:209, the mapping identify_roles returned
    run_speakers,      \* per run: main.py:172, transcription.speakers
    formatted_transcript, \* per run: main.py:180, the lines given to the analysis
    hook_pc,           \* main.py:273, the await amocrm_webhook is suspended at
    body,              \* main.py:299-335, the fields amocrm_webhook took from the form
    note_data,         \* main.py:346-351, the note amocrm_webhook fetched
    response,          \* main.py:273, the JSONResponse amocrm_webhook returned
    PROCESSED,         \* handler.py:26, the members that are keys of the tracked tasks
    others,            \* handler.py:26, number of members that are other keys
    geo_pc,            \* per task: the await notify_geodesist is suspended at / its outcome
    payload,           \* per task: the GeodesistWebhookPayload it was started with
    geo_dup,           \* per task: the value _dedup returned, as text
    geo_sent,          \* per task: send_text has returned
    geo_note,          \* per task: the history note is written to the deal
    cleared,           \* history: per task, a clear has emptied the set since its _dedup
    before             \* history: per task, the tasks that had ended when it was scheduled

guardVars == <<PROCESSED_CALLS, strangers, PROCESSED_LOCK, unseen, clears>>
crmVars == <<links, status, note>>
runVars == <<lead_ids, idx, lead_id, target_entity_type, calls, resolved, created, lastRead>>
histVars == <<stages, raised, audio_data, full_text, sent, result_text, earlier>>
roleVars == <<speakers, roles, run_speakers, formatted_transcript>>
hookVars == <<hook_pc, body, note_data, response>>
geoVars == <<PROCESSED, others, geo_pc, payload, geo_dup, geo_sent, geo_note, cleared, before>>
pureVars == <<fn_pc, value, items, result_json, analysis, note_args, note_text>>
otherVars == <<roleVars, hookVars, geoVars, event_loop, pureVars>>
callVars == <<guardVars, pc, args, dup, crmVars, runVars, histVars, roleVars, hookVars,
              event_loop, pureVars>>
vars == <<PROCESSED_CALLS, strangers, PROCESSED_LOCK, pc, args, dup, unseen, clears,
          links, status, lead_ids, idx, lead_id, target_entity_type, note, calls,
          resolved, created, lastRead, stages, raised, audio_data, full_text, sent,
          result_text, earlier, event_loop,
          fn_pc, value, items, result_json, analysis, note_args, note_text,
          speakers, roles, run_speakers, formatted_transcript,
          hook_pc, body, note_data, response,
          PROCESSED, others, geo_pc, payload, geo_dup, geo_sent, geo_note, cleared, before>>

NoArgs == [entity_type |-> "none", entity_id |-> None, record_url |-> "none"]
NoResult == "none"
NoNote == [entity_type |-> "none", entity_id |-> None]
NoRead == [deal |-> None, status |-> None]
NoCalls == [o \in Ops |-> 0]
Unresolved == None - 1
NoLen == None - 1
NoRaise == "none"
NoText == "none"
NoRoles == [l \in {"none"} |-> "none"]
NoLines == <<[role |-> "unset", text |-> <<>>]>>
NoBody == [note_id |-> None, element_id |-> None, entity_type |-> "none"]
NoResponse == [status |-> "none", status_code |-> None]

\* ------------------------------------------------- is_already_processed --
\* len(PROCESSED_CALLS)
CacheLen == Cardinality(PROCESSED_CALLS) + strangers

\* (variant: the lock does not exclude anybody)
LockNeverHeld == TRUE

\* `async with PROCESSED_LOCK` can be entered only while nobody holds it
LockFree == PROCESSED_LOCK = NoRun

\* (variant: the membership test never finds the url)
InCacheNever(u) == FALSE

\* `record_url in PROCESSED_CALLS`
InCache(u) == u \in PROCESSED_CALLS

\* (variant: the size is never checked)
CacheNeverFull == FALSE

\* `len(PROCESSED_CALLS) > 1000`
CacheFull == CacheLen > CacheLimit

\* (variant: add first, clear afterwards)
AddedThenCleared(u) == IF CacheLen > CacheLimit THEN {} ELSE PROCESSED_CALLS \cup {u}

\* main.py:43-45 for a tracked url: the set after the optional clear and the add
AddedSet(u) == IF CacheFull THEN {u} ELSE PROCESSED_CALLS \cup {u}

\* (variant: the clear keeps the keys of the other calls)
StrangersKept == strangers

\* main.py:43-45 for the keys of the other calls: gone with the clear
AddedStrangers == IF CacheFull THEN 0 ELSE strangers

\* ------------------------------------------------------------ helpers ----
\* Python truth value of an Optional[int]
Truthy(x) == x # None

\* (variant: every event is resolved like a contact event)
IsAnyType(t) == t \in {"contact", "contacts", "leads"}

\* main.py:119-120
IsContactType(t) == t \in {"contact", "contacts"}

\* (variant: only the won status counts as closed)
IsWon(st) == st = 142

\* amocrm.py:481
IsClosed(st) == st \in CLOSED_STATUSES

\* (variant: whatever the resolution returned is taken as the target)
UseAnything(found, entity_id) == TRUE

\* main.py:137
UseFound(found, entity_id) == Truthy(found) /\ found # entity_id

\* main.py:159
IsUploaded(u) == u = "uploaded://c"

\* the status the CRM gives a deal created by POST /leads
NewDealStatus == CHOOSE st \in StatusIds : ~IsClosed(st)

Invoked(r, op) == [calls EXCEPT ![r][op] = @ + 1]

\* (variant: the name is not bound when the handler reads it)
LeadIdUnbound(op) == FALSE

\* main.py:115  `lead_id = entity_id` comes after the dedup check of line 104:
\* every later call finds the name bound
LeadIdBound(op) == op # "dedup"

\* (variant: a call that raised is awaited once more)
RetryPc(op) == op

\* main.py:251-253: the exception of any awaited call ends the run. The handler
\* formats lead_id into its log line; when the name is unbound that raises
\* UnboundLocalError, which leaves process_call
FailedPc(op) == IF LeadIdBound(op) THEN "failed" ELSE "escaped"

\* (variant: the except block reports the error to the operator channel)
SendsError(op) == <<"send_error">>

\* main.py:251-253: the except block logs and sends nothing
OnFailureSend(op) == <<>>

\* the operator channel after a call of run r has returned or raised
SentAfter(r) ==
    [sent EXCEPT ![r] = @ \o (IF raised'[r] # NoRaise THEN OnFailureSend(raised'[r])
                                                      ELSE <<>>)]

\* a stage of main.py:163-247 is started
Started(r, stage) == [stages EXCEPT ![r] = Append(@, stage)]

\* (variant: audio of exactly the threshold length is rejected as well)
NotAboveThreshold(n) == n <= MinAudioBytes

\* main.py:166  `len(audio_data) < 10000`
TooSmall(n) == n < MinAudioBytes

\* (variant: only the empty text is rejected)
IsEmptyText(n) == n = 0

\* main.py:174  `not transcription.full_text or len(transcription.full_text) < 50`
TooShort(n) == n = 0 \/ n < MinTextChars

\* sequences over S without repetition, of length at most 2
Listings(S) ==
    {<<>>} \cup {<<a>> : a \in S} \cup {p \in S \X S : p[1] # p[2]}

SeqRange(q) == {q[i] : i \in 1..Len(q)}

\* ------------------------------------------------------------ events -----
CallEvents ==
    {[entity_type |-> "contacts", entity_id |-> ContactId, record_url |-> u] : u \in Urls}
    \cup
    {[entity_type |-> "leads", entity_id |-> i, record_url |-> u] :
        i \in LeadEventIds, u \in Urls \cup {ListUrl}}

GuardEvents ==
    {[entity_type |-> "leads", entity_id |-> 2, record_url |-> u] : u \in PlainUrls}

\* background tasks running notify_geodesist
GeoTasks == {"g1", "g2"}
NoPayload == [lead_id |-> None, geodesist |-> "none", geodesist_phone |-> "none",
              details |-> FALSE]

\* no delivery to the geodesist webhook has been made
NoNotification ==
    /\ PROCESSED = {}
    /\ others = 0
    /\ geo_pc = [t \in GeoTasks |-> "idle"]
    /\ payload = [t \in GeoTasks |-> NoPayload]
    /\ geo_dup = [t \in GeoTasks |-> NoResult]
    /\ geo_sent = [t \in GeoTasks |-> FALSE]
    /\ geo_note = [t \in GeoTasks |-> FALSE]
    /\ cleared = [t \in GeoTasks |-> FALSE]
    /\ before = [t \in GeoTasks |-> {}]

\* no task has been scheduled
InitCalls ==
    /\ NoNotification
    /\ PROCESSED_CALLS = {}
    /\ strangers = 0
    /\ PROCESSED_LOCK = NoRun
    /\ pc = [r \in Runs |-> "idle"]
    /\ args = [r \in Runs |-> NoArgs]
    /\ dup = [r \in Runs |-> NoResult]
    /\ unseen = [u \in Urls |-> 0]
    /\ clears = FALSE
    /\ links \in Listings(DealIds)
    /\ status \in [DealIds -> StatusIds \cup {None}]
    /\ \A d \in DealIds : (status[d] # None) <=> (d \in SeqRange(links))
    /\ lead_ids = [r \in Runs |-> <<>>]
    /\ idx = [r \in Runs |-> 0]
    /\ lead_id = [r \in Runs |-> None]
    /\ target_entity_type = [r \in Runs |-> "none"]
    /\ note = [r \in Runs |-> NoNote]
    /\ calls = [r \in Runs |-> NoCalls]
    /\ resolved = [r \in Runs |-> Unresolved]
    /\ created = [r \in Runs |-> None]
    /\ lastRead = [r \in Runs |-> NoRead]
    /\ stages = [r \in Runs |-> <<>>]
    /\ raised = [r \in Runs |-> NoRaise]
    /\ audio_data = [r \in Runs |-> NoLen]
    /\ full_text = [r \in Runs |-> NoLen]
    /\ sent = [r \in Runs |-> <<>>]
    /\ result_text = [r \in Runs |-> NoText]
    /\ earlier = [r \in Runs |-> {}]
    /\ event_loop = NoRun

\* no run has a transcription
NoTranscription ==
    /\ run_speakers = [r \in Runs |-> <<>>]
    /\ formatted_transcript = [r \in Runs |-> NoLines]

\* identify_roles is not being called
NoTranscript == speakers = <<>> /\ roles = NoRoles /\ NoTranscription

\* no note has been asked for
NoNoteData == [note_type |-> "unset", params |-> "unset", link |-> "unset"]

\* main.py:346 and amocrm.py:100-113: note_data is None
NoneNote == [note_type |-> "None", params |-> "None", link |-> "None"]

\* no request is being handled
NoRequest ==
    hook_pc = "idle" /\ body = NoBody /\ note_data = NoNoteData /\ response = NoResponse

\* none of the functions of analysis.py is being applied
NoValue == [type |-> "unset", list |-> <<>>, chars |-> <<>>]
NoJson == [fields |-> "unset", next_steps |-> NoValue]
NoAnalysis == [client_name |-> "", manager_name |-> "", summary |-> "",
               client_city |-> "", work_type |-> "", cost |-> "",
               payment_terms |-> "", call_result |-> "", next_contact_date |-> "",
               next_steps |-> <<>>]
NoNoteArgs == [call_type |-> "", duration_seconds |-> 0]
NoFunction ==
    /\ fn_pc = "idle"
    /\ value = NoValue
    /\ items = <<>>
    /\ result_json = NoJson
    /\ analysis = NoAnalysis
    /\ note_args = NoNoteArgs
    /\ note_text = <<>>

Init == InitCalls /\ NoTranscript /\ NoRequest /\ NoFunction

\* main.py:106, 145, 161, 168, 176 and 249-253: process_call has returned or
\* has been left by an exception
Ended(r) == pc[r] \in {"skipped", "aborted", "failed", "escaped", "done"}
EndedRuns == {q \in Runs : Ended(q)}

\* asyncio runs every coroutine of the service on one thread: while a
\* synchronous call of run q has not returned, no other coroutine is resumed
CanRun(r) == event_loop \in {NoRun, r}

\* a request handler can run
LoopIdle == CanRun(NoRun)

\* background_tasks.add_task(process_call, ...): the task is scheduled
Deliver(r, events) ==
    /\ LoopIdle
    /\ pc[r] = "idle"
    /\ \E e \in events :
          args' = [args EXCEPT ![r] = e]
    /\ pc' = [pc EXCEPT ![r] = "dedup_lock"]
    /\ earlier' = [earlier EXCEPT ![r] = EndedRuns]
    /\ UNCHANGED <<guardVars, dup, crmVars, runVars, stages, raised, audio_data,
                   full_text, sent, result_text, otherVars>>

\* main.py:39  async with PROCESSED_LOCK  (acquire)
Acquire(r) ==
    /\ pc[r] = "dedup_lock"
    /\ LockFree
    /\ PROCESSED_LOCK' = r
    /\ pc' = [pc EXCEPT ![r] = "dedup_test"]
    /\ UNCHANGED <<PROCESSED_CALLS, strangers, args, dup, unseen, clears, crmVars, runVars, histVars, otherVars>>

\* main.py:40  `record_url in PROCESSED_CALLS` hashes record_url
IsHashable(u) == u # ListUrl

\* main.py:40-41  if record_url in PROCESSED_CALLS: return True. Of a value
\* that cannot be hashed the test raises TypeError: the `async with` of line 39
\* releases the lock and the except of main.py:251 takes over
Test(r) ==
    /\ pc[r] = "dedup_test"
    /\ IF ~IsHashable(args[r].record_url)
          THEN /\ PROCESSED_LOCK' = NoRun
               /\ raised' = [raised EXCEPT ![r] = "dedup"]
               /\ pc' = [pc EXCEPT ![r] = FailedPc("dedup")]
               /\ sent' = SentAfter(r)
               /\ UNCHANGED dup
          ELSE /\ IF InCache(args[r].record_url)
                     THEN /\ dup' = [dup EXCEPT ![r] = "True"]
                          /\ pc' = [pc EXCEPT ![r] = "dedup_exit"]
                     ELSE /\ pc' = [pc EXCEPT ![r] = "dedup_add"]
                          /\ UNCHANGED dup
               /\ UNCHANGED <<PROCESSED_LOCK, raised, sent>>
    /\ UNCHANGED <<PROCESSED_CALLS, strangers, unseen, clears, args, crmVars, runVars,
                   stages, audio_data, full_text, result_text, earlier, otherVars>>

\* main.py:43-46  clear when over the limit, add, return False
Add(r) ==
    /\ pc[r] = "dedup_add"
    /\ LET u == args[r].record_url IN
          /\ PROCESSED_CALLS' = AddedSet(u)
          /\ strangers' = AddedStrangers
          /\ unseen' = IF CacheFull
                          THEN [v \in Urls |-> IF v = u THEN 1 ELSE 0]
                          ELSE [unseen EXCEPT ![u] = @ + 1]
          /\ clears' = (clears \/ CacheFull)
    /\ dup' = [dup EXCEPT ![r] = "False"]
    /\ pc' = [pc EXCEPT ![r] = "dedup_exit"]
    /\ UNCHANGED <<PROCESSED_LOCK, args, crmVars, runVars, histVars, otherVars>>

\* (variant: the result of the dedup check is ignored)
AfterDedupNoSkip(r) ==
    IF args[r].entity_type \in {"contact", "contacts"} THEN "get_contact" ELSE "manager"

\* main.py:104-120: where a run goes once is_already_processed has returned
AfterDedup(r) ==
    IF dup[r] = "True" THEN "skipped"
    ELSE IF IsContactType(args[r].entity_type) THEN "get_contact"
    ELSE "manager"

\* main.py:39 leaving the `async with` block, then main.py:104-120
Release(r) ==
    /\ pc[r] = "dedup_exit"
    /\ PROCESSED_LOCK' = NoRun
    /\ pc' = [pc EXCEPT ![r] = AfterDedup(r)]
    /\ IF dup[r] = "True"
          THEN UNCHANGED <<lead_id, target_entity_type>>
          ELSE /\ lead_id' = [lead_id EXCEPT ![r] = args[r].entity_id]
               /\ target_entity_type' =
                     [target_entity_type EXCEPT ![r] = args[r].entity_type]
    /\ UNCHANGED <<PROCESSED_CALLS, strangers, args, dup, unseen, clears, crmVars,
                   lead_ids, idx, calls, resolved, created, lastRead, histVars, otherVars>>

\* is_already_processed called by a run outside Runs with a record_url that
\* no other delivery carries: not in the set, so line 43-46 run under the lock
OtherCall ==
    /\ LockFree
    /\ PROCESSED_CALLS' = IF CacheFull THEN {} ELSE PROCESSED_CALLS
    /\ strangers' = IF CacheFull THEN 1 ELSE strangers + 1
    /\ unseen' = IF CacheFull THEN [v \in Urls |-> 0] ELSE unseen
    /\ clears' = (clears \/ CacheFull)
    /\ UNCHANGED <<PROCESSED_LOCK, pc, args, dup, crmVars, runVars, histVars, otherVars>>

DeliverCall(r) == Deliver(r, GuardEvents)

\* the cache alone: three tracked deliveries among any number of others
NextGuard ==
    \/ \E r \in Runs : DeliverCall(r) \/ Acquire(r) \/ Test(r) \/ Add(r) \/ Release(r)
    \/ OtherCall

\* the CRM plays no part in the cache: start it with a contact without deals
InitGuard == Init /\ links = <<>>

SpecGuard == InitGuard /\ [][NextGuard]_vars

\* ------------------------------------------------------ identify_roles ---
\* Texts are sequences of words (in Latin transliteration); `" ".join` is the
\* concatenation of word sequences and `ind in full_text` the search for a
\* contiguous run of words.
MaxUtterances == 3

\* Speaker.label, and the order `sorted` puts the labels in
Labels == {"A", "B", "C"}
LabelOrder == <<"A", "B", "C">>
Rank(l) == CHOOSE i \in 1..Len(LabelOrder) : LabelOrder[i] = l

\* transcription.py:198 and 200 ("Менеджер", "Клиент")
Manager_ == "Manager"
Client_ == "Client"

\* transcription.py:180-184
manager_indicators ==
    {<<"dobryj", "den">>, <<"zdravstvujte">>, <<"kompaniya">>, <<"menya", "zovut">>,
     <<"chem", "mogu", "pomoch">>, <<"po", "povodu", "vashej", "zayavki">>,
     <<"vy", "ostavlyali">>, <<"davajte">>, <<"predlagayu">>, <<"stoimost">>,
     <<"cena", "budet">>}

\* transcription.py:186-189
client_indicators ==
    {<<"mne", "nuzhno">>, <<"hochu">>, <<"interesuet">>, <<"skolko", "stoit">>,
     <<"kakaya", "cena">>, <<"mozhete", "sdelat">>, <<"kogda", "smozhete">>}

\* Speaker.text of an utterance: neutral, half an indicator, one indicator
\* (one of them capitalised), one indicator of each list
Texts == {<<"allo">>, <<"dobryj">>, <<"den">>, <<"Hochu">>, <<"davajte">>,
          <<"davajte", "hochu">>}

\* str.lower() on the words of Texts
Lower(w) == IF w = "Hochu" THEN "hochu" ELSE w

LowerText(t) == [i \in DOMAIN t |-> Lower(t[i])]

\* transcription.py:111-116: utterance i, of a label and a text, starts at
\* i - 1 and ends at i
Utterance(i, lt) ==
    [label |-> lt[1], text |-> lt[2], start_ms |-> i - 1, end_ms |-> i]

\* transcription.py:108-117: the speakers built from transcript.utterances
Transcript(f) == [i \in DOMAIN f |-> Utterance(i, f[i])]

\* transcription.py:173-177 and 192: the lowered texts of a label, joined
RECURSIVE JoinedText(_, _)
JoinedText(q, l) ==
    IF q = <<>> THEN <<>>
    ELSE (IF Head(q).label = l THEN LowerText(Head(q).text) ELSE <<>>)
            \o JoinedText(Tail(q), l)

\* `ind in full_text`
Contains(t, ind) ==
    \E i \in 0..(Len(t) - Len(ind)) : SubSeq(t, i + 1, i + Len(ind)) = ind

\* transcription.py:194-195
manager_score(t) == Cardinality({ind \in manager_indicators : Contains(t, ind)})
client_score(t) == Cardinality({ind \in client_indicators : Contains(t, ind)})

\* (variant: equal scores make a manager)
ScoredRoleOnTie(m, c) == IF m >= c THEN Manager_ ELSE Client_

\* transcription.py:197-200
ScoredRole(m, c) == IF m > c THEN Manager_ ELSE Client_

SpeakerLabels(q) == {q[i].label : i \in DOMAIN q}

\* transcription.py:191-200
Scored(q) ==
    [l \in SpeakerLabels(q) |->
        ScoredRole(manager_score(JoinedText(q, l)), client_score(JoinedText(q, l)))]

Managers(rs) == {l \in DOMAIN rs : rs[l] = Manager_}

\* (variant: the scores are never overridden)
NeverOverride(n, managers) == FALSE

\* transcription.py:204
NeedsOverride(n, managers) == n = 2 /\ managers # 1

\* transcription.py:205-206  labels = sorted(roles.keys()); labels[0]
FirstSorted(ls) == CHOOSE l \in ls : \A k \in ls : Rank(l) <= Rank(k)

\* transcription.py:155-209
identify_roles(q) ==
    LET scored == Scored(q)
        ls == DOMAIN scored
    IN IF NeedsOverride(Cardinality(ls), Cardinality(Managers(scored)))
          THEN [l \in ls |-> IF l = FirstSorted(ls) THEN Manager_ ELSE Client_]
          ELSE scored

\* transcription.py:226-229: the line of one Speaker; a label without role
\* keeps its label
RoleLine(sp, rs) ==
    [role |-> IF sp.label \in DOMAIN rs THEN rs[sp.label] ELSE sp.label,
     text |-> sp.text]

\* transcription.py:211-231: the lines "\n".join puts together; no line is
\* the empty string
format_with_roles(q, rs) == [i \in DOMAIN q |-> RoleLine(q[i], rs)]

\* what transcribe_audio can return as speakers (transcription.py:105-120):
\* none when the transcript has no utterances, one utterance, two speakers
RunTranscripts ==
    {<<>>,
     Transcript(<<<<"A", <<"davajte">>>>>>),
     Transcript(<<<<"A", <<"allo">>>>, <<"B", <<"Hochu">>>>>>)}

\* -------------------------------------------------------- process_call ---
\* main.py:137-145: what process_call does with the value get_or_create_lead_for_contact
\* returned; the run then waits at "manager" or has returned
Resolved(r, found) ==
    /\ resolved' = [resolved EXCEPT ![r] = found]
    /\ IF UseFound(found, args[r].entity_id)
          THEN /\ lead_id' = [lead_id EXCEPT ![r] = found]
               /\ target_entity_type' = [target_entity_type EXCEPT ![r] = "leads"]
               /\ pc' = [pc EXCEPT ![r] = "manager"]
          ELSE /\ pc' = [pc EXCEPT ![r] = "aborted"]
               /\ UNCHANGED <<lead_id, target_entity_type>>

\* main.py:125  contact = await amocrm_service.get_contact(entity_id)
\* (amocrm.py:299-320: re-raises, process_call's except at main.py:251 ends the run)
GetContact(r) ==
    /\ pc[r] = "get_contact"
    /\ calls' = Invoked(r, "get_contact")
    /\ \/ pc' = [pc EXCEPT ![r] = "links"] /\ UNCHANGED raised
       \/ /\ pc' = [pc EXCEPT ![r] = FailedPc("get_contact")]
          /\ raised' = [raised EXCEPT ![r] = "get_contact"]
    /\ sent' = SentAfter(r)
    /\ UNCHANGED <<result_text, earlier>>
    /\ UNCHANGED <<guardVars, args, dup, crmVars, lead_ids, idx, lead_id,
                   target_entity_type, resolved, created, lastRead,
                   stages, audio_data, full_text, otherVars>>

\* amocrm.py:436-463  GET /contacts/{id}/links; 204, an error status and an
\* exception (amocrm.py:493-495) all make get_active_lead_for_contact return None
ListLinks(r) ==
    /\ pc[r] = "links"
    /\ calls' = Invoked(r, "links")
    /\ \E ok \in BOOLEAN :
          IF ok /\ links # <<>>
             THEN /\ lead_ids' = [lead_ids EXCEPT ![r] = links]
                  /\ idx' = [idx EXCEPT ![r] = 1]
                  /\ pc' = [pc EXCEPT ![r] = "lead"]
             ELSE /\ pc' = [pc EXCEPT ![r] = "get_contact2"]
                  /\ UNCHANGED <<lead_ids, idx>>
    /\ UNCHANGED <<guardVars, args, dup, crmVars, lead_id, target_entity_type,
                   resolved, created, lastRead, histVars, otherVars>>

\* amocrm.py:490-491 and 587-590: the loop is over, no deal was returned
NextLead(r) ==
    IF idx[r] < Len(lead_ids[r])
       THEN /\ idx' = [idx EXCEPT ![r] = @ + 1]
            /\ UNCHANGED pc
       ELSE /\ pc' = [pc EXCEPT ![r] = "get_contact2"]
            /\ UNCHANGED idx

\* amocrm.py:466-488  GET /leads/{lead_id}: one round of the loop; a status
\* other than 200 and an exception skip the deal
ReadLead(r) ==
    /\ pc[r] = "lead"
    /\ calls' = Invoked(r, "lead")
    /\ LET d == lead_ids[r][idx[r]] IN
       \E ok \in BOOLEAN :
          IF ok /\ status[d] # None
             THEN /\ lastRead' = [lastRead EXCEPT ![r] = [deal |-> d, status |-> status[d]]]
                  /\ IF ~IsClosed(status[d]) /\ Truthy(d)
                        THEN Resolved(r, d) /\ UNCHANGED idx
                        ELSE NextLead(r) /\
                             UNCHANGED <<lead_id, target_entity_type, resolved>>
             ELSE /\ NextLead(r)
                  /\ UNCHANGED <<lead_id, target_entity_type, resolved, lastRead>>
    /\ UNCHANGED <<guardVars, args, dup, crmVars, lead_ids, created, histVars, otherVars>>

\* amocrm.py:590  contact = await self.get_contact(contact_id)  (re-raises)
GetContact2(r) ==
    /\ pc[r] = "get_contact2"
    /\ calls' = Invoked(r, "get_contact")
    /\ \/ pc' = [pc EXCEPT ![r] = "create_lead"] /\ UNCHANGED raised
       \/ /\ pc' = [pc EXCEPT ![r] = FailedPc("get_contact")]
          /\ raised' = [raised EXCEPT ![r] = "get_contact"]
    /\ sent' = SentAfter(r)
    /\ UNCHANGED <<result_text, earlier>>
    /\ UNCHANGED <<guardVars, args, dup, crmVars, lead_ids, idx, lead_id,
                   target_entity_type, resolved, created, lastRead,
                   stages, audio_data, full_text, otherVars>>

\* amocrm.py:497-557  POST /leads with the contact embedded; a 400, an empty
\* answer and an exception return None
CreateLead(r) ==
    /\ pc[r] = "create_lead"
    /\ calls' = Invoked(r, "create_lead")
    /\ \/ /\ Resolved(r, None)
          /\ UNCHANGED <<links, status, created>>
       \/ \E d \in DealIds :
             /\ status[d] = None
             /\ status' = [status EXCEPT ![d] = NewDealStatus]
             /\ links' = Append(links, d)
             /\ created' = [created EXCEPT ![r] = d]
             /\ Resolved(r, d)
    /\ UNCHANGED <<guardVars, args, dup, note, lead_ids, idx, lastRead, histVars, otherVars>>

\* (variant: the recording is not downloaded)
SkipDownload(r) == "transcribe"

\* main.py:158-164: the run goes on to the download unless the url is uploaded://
ToDownload(r) == IF IsUploaded(args[r].record_url) THEN "aborted" ELSE "download"

\* main.py:149-161  manager name: get_user is awaited only for a responsible
\* user that config.MANAGERS does not know
Manager(r) ==
    /\ pc[r] = "manager"
    /\ \E needUser \in BOOLEAN :
          pc' = [pc EXCEPT ![r] = IF needUser THEN "get_user" ELSE ToDownload(r)]
    /\ UNCHANGED <<guardVars, args, dup, crmVars, runVars, histVars, otherVars>>

\* main.py:154  user = await amocrm_service.get_user(...)  (amocrm.py:378-399, never raises)
GetUser(r) ==
    /\ pc[r] = "get_user"
    /\ calls' = Invoked(r, "get_user")
    /\ pc' = [pc EXCEPT ![r] = ToDownload(r)]
    /\ UNCHANGED <<guardVars, args, dup, crmVars, lead_ids, idx, lead_id,
                   target_entity_type, resolved, created, lastRead, histVars, otherVars>>

\* main.py:164-168  download (amocrm.py:230-273 re-raises), then the size gate
Download(r) ==
    /\ pc[r] = "download"
    /\ calls' = Invoked(r, "download")
    /\ stages' = Started(r, "download")
    /\ \/ /\ pc' = [pc EXCEPT ![r] = FailedPc("download")]
          /\ raised' = [raised EXCEPT ![r] = "download"]
          /\ UNCHANGED audio_data
       \/ \E size \in AudioSizes :
             /\ audio_data' = [audio_data EXCEPT ![r] = size]
             /\ pc' = [pc EXCEPT ![r] = IF TooSmall(size) THEN "aborted" ELSE "transcribe"]
             /\ UNCHANGED raised
    /\ sent' = SentAfter(r)
    /\ UNCHANGED <<result_text, earlier>>
    /\ UNCHANGED <<guardVars, args, dup, crmVars, lead_ids, idx, lead_id,
                   target_entity_type, resolved, created, lastRead, full_text, otherVars>>

\* main.py:172 and transcription.py:60-96: transcribe_audio has no await; it
\* calls the SDK's Transcriber.transcribe synchronously on the event loop
\* thread, which is occupied until that call returns
TranscribeCall(r) ==
    /\ pc[r] = "transcribe"
    /\ calls' = Invoked(r, "transcribe")
    /\ stages' = Started(r, "transcribe")
    /\ pc' = [pc EXCEPT ![r] = "transcribing"]
    /\ event_loop' = r
    /\ UNCHANGED <<guardVars, args, dup, crmVars, lead_ids, idx, lead_id,
                   target_entity_type, resolved, created, lastRead, raised,
                   audio_data, full_text, sent, result_text, earlier,
                   roleVars, hookVars, geoVars, pureVars>>

\* transcription.py:96-153 and main.py:174-183: the SDK call returns speakers
\* and a full text (the errors are raised again), then the length gate,
\* identify_roles and format_with_roles
Transcribe(r, transcripts) ==
    /\ pc[r] = "transcribing"
    /\ event_loop' = NoRun
    /\ \/ /\ pc' = [pc EXCEPT ![r] = FailedPc("transcribe")]
          /\ raised' = [raised EXCEPT ![r] = "transcribe"]
          /\ UNCHANGED <<full_text, stages, run_speakers, formatted_transcript>>
       \/ \E chars \in TextSizes, q \in transcripts :
             /\ full_text' = [full_text EXCEPT ![r] = chars]
             /\ run_speakers' = [run_speakers EXCEPT ![r] = q]
             /\ IF TooShort(chars)
                   THEN /\ pc' = [pc EXCEPT ![r] = "aborted"]
                        /\ UNCHANGED <<stages, formatted_transcript>>
                   ELSE /\ pc' = [pc EXCEPT ![r] = "analyze"]
                        /\ stages' = Started(r, "identify_roles")
                        /\ formatted_transcript' =
                              [formatted_transcript EXCEPT
                                  ![r] = format_with_roles(q, identify_roles(q))]
             /\ UNCHANGED raised
    /\ sent' = SentAfter(r)
    /\ UNCHANGED <<result_text, earlier>>
    /\ UNCHANGED <<guardVars, args, dup, crmVars, lead_ids, idx, lead_id,
                   target_entity_type, calls, resolved, created, lastRead, audio_data,
                   speakers, roles, hookVars, geoVars, pureVars>>

\* what the analysis model can answer: text that is not JSON, JSON that is
\* not an object, an object without some of the fields, an object whose
\* next_steps is not a list, an object of the requested shape
Responses == {"invalid_json", "not_object", "missing_fields", "next_steps_not_list",
              "well_formed"}

\* analysis.py:215/235 json.loads raises on text that is not JSON, and
\* analysis.py:237 `.get` raises on a value that is not an object; a missing
\* field takes the default of its `.get` (analysis.py:243-251) and a
\* next_steps that is not a list becomes [] (analysis.py:238-239)
YieldsAnalysis(text) == text \notin {"invalid_json", "not_object"}

\* main.py:189-201  analyze_call (analysis.py:258-263 re-raises), then format_note
Analyze(r, responses) ==
    /\ pc[r] = "analyze"
    /\ calls' = Invoked(r, "analyze")
    /\ \/ \E text \in responses :
             /\ result_text' = [result_text EXCEPT ![r] = text]
             /\ IF YieldsAnalysis(text)
                   THEN /\ pc' = [pc EXCEPT ![r] = "add_note"]
                        /\ stages' = [stages EXCEPT ![r] =
                                         @ \o <<"analyze", "format_note">>]
                        /\ UNCHANGED raised
                   ELSE /\ pc' = [pc EXCEPT ![r] = FailedPc("analyze")]
                        /\ stages' = Started(r, "analyze")
                        /\ raised' = [raised EXCEPT ![r] = "analyze"]
       \/ /\ pc' = [pc EXCEPT ![r] = FailedPc("analyze")]
          /\ stages' = Started(r, "analyze")
          /\ raised' = [raised EXCEPT ![r] = "analyze"]
          /\ UNCHANGED result_text
    /\ sent' = SentAfter(r)
    /\ UNCHANGED <<guardVars, args, dup, crmVars, lead_ids, idx, lead_id,
                   target_entity_type, resolved, created, lastRead,
                   audio_data, full_text, earlier, otherVars>>

\* main.py:205-214  add_note_to_entity(lead_id, note_text, target_entity_type);
\* an exception is logged and raised again
AddNote(r) ==
    /\ pc[r] = "add_note"
    /\ calls' = Invoked(r, "add_note")
    /\ stages' = Started(r, "add_note")
    /\ \E ok \in BOOLEAN :
          IF ok
             THEN /\ note' = [note EXCEPT ![r] = [entity_type |-> target_entity_type[r],
                                                 entity_id |-> lead_id[r]]]
                  /\ pc' = [pc EXCEPT ![r] = "telegram"]
                  /\ UNCHANGED raised
             ELSE /\ pc' = [pc EXCEPT ![r] = FailedPc("add_note")]
                  /\ raised' = [raised EXCEPT ![r] = "add_note"]
                  /\ UNCHANGED note
    /\ sent' = SentAfter(r)
    /\ UNCHANGED <<result_text, earlier>>
    /\ UNCHANGED <<guardVars, args, dup, links, status, lead_ids, idx, lead_id,
                   target_entity_type, resolved, created, lastRead,
                   audio_data, full_text, otherVars>>

\* main.py:231  telegram_service.send_call_analysis: TelegramService
\* (telegram.py:13-145) defines no such method, the attribute lookup raises
\* and the except of main.py:251 ends the run
Notify(r) ==
    /\ pc[r] = "telegram"
    /\ calls' = Invoked(r, "telegram")
    /\ pc' = [pc EXCEPT ![r] = FailedPc("telegram")]
    /\ stages' = Started(r, "telegram")
    /\ raised' = [raised EXCEPT ![r] = "telegram"]
    /\ sent' = SentAfter(r)
    /\ UNCHANGED <<result_text, earlier>>
    /\ UNCHANGED <<guardVars, args, dup, crmVars, lead_ids, idx, lead_id,
                   target_entity_type, resolved, created, lastRead,
                   audio_data, full_text, otherVars>>

\* every step of process_call after the task was scheduled, with the answers
\* the analysis model can give
Step(r, responses, transcripts) ==
    /\ CanRun(r)
    /\ \/ Acquire(r) \/ Test(r) \/ Add(r) \/ Release(r)
       \/ GetContact(r) \/ ListLinks(r) \/ ReadLead(r) \/ GetContact2(r) \/ CreateLead(r)
       \/ Manager(r) \/ GetUser(r) \/ Download(r) \/ TranscribeCall(r)
       \/ Transcribe(r, transcripts)
       \/ Analyze(r, responses) \/ AddNote(r) \/ Notify(r)

DeliverEvent(r) == Deliver(r, CallEvents)

\* one delivery of any event, against any CRM content
Next == \E r \in OneRun : DeliverEvent(r) \/ Step(r, Responses, RunTranscripts)

Spec == Init /\ [][Next]_vars

\* two concurrent deliveries, for a contact without deals or with deal 2, or for deal 2
PairEvents ==
    {e \in CallEvents : /\ e.record_url \in PlainUrls
                        /\ IsContactType(e.entity_type) \/ e.entity_id = 2}

DeliverPair(r) == Deliver(r, PairEvents)

InitPair == Init /\ links \in {<<>>, <<2>>}

\* the analysis answers of the two concurrent runs
PairResponses == {"well_formed"}

\* the speakers of the two concurrent runs: one utterance
PairTranscripts == {q \in RunTranscripts : Len(q) = 1}

NextPair == \E r \in PipeRuns : DeliverPair(r) \/ Step(r, PairResponses, PairTranscripts)

SpecPair == InitPair /\ [][NextPair]_vars

\* ------------------------------------------------------ amocrm_webhook ---
\* main.py:340-413  status_code=200
StatusOk == 200

\* [note][id] of the delivered note
NoteId == 7

\* main.py:299-335: the fields taken from the form; a field that is absent or
\* not a number stays None
Bodies ==
    {b \in [note_id : {None, NoteId},
            element_id : {None} \cup LeadEventIds,
            entity_type : {"none", "contacts", "leads"}] :
        b.entity_type = "contacts" => b.element_id \in {None, ContactId}}

\* what GET /{entity}/{id}/notes/{note_id} answers: the note type, params
\* (JSON null, or an object) and params.link ("" when there is none)
NoLink == ""
NoteData ==
    [note_type : {"call_in", "call_out", "common"},
     params : {"null", "object"},
     link : Urls \cup {NoLink, ListUrl}]

Answer(st) == [status |-> st, status_code |-> StatusOk]

\* (variant: the exception leaves the handler, the framework answers)
ExceptionEscapes == [status |-> "error", status_code |-> StatusOk + 300]

\* main.py:411-413
OnException == Answer("error")

\* main.py:282-340 and 348-358: the form is read and searched for the fields;
\* a payload without element_id or entity type is ignored
HookForm ==
    /\ LoopIdle
    /\ hook_pc = "idle"
    /\ \/ /\ response' = OnException
          /\ hook_pc' = "done"
          /\ UNCHANGED body
       \/ \E b \in Bodies :
             /\ body' = b
             /\ IF ~Truthy(b.element_id) \/ b.entity_type = "none"
                   THEN /\ response' = Answer("ignored")
                        /\ hook_pc' = "done"
                   ELSE /\ hook_pc' = IF Truthy(b.note_id) THEN "get_note"
                                                           ELSE "recent_notes"
                        /\ UNCHANGED response
    /\ UNCHANGED <<guardVars, pc, args, dup, crmVars, runVars, histVars, roleVars,
                   note_data, geoVars, event_loop,
                   pureVars>>

\* (variant: a note of any type is taken for a call)
IsAnyNote(t) == TRUE

\* main.py:380  `actual_note_type not in ["call_in", "call_out"]`
IsCallNote(t) == t \in {"call_in", "call_out"}

\* main.py:398-407  background_tasks.add_task(process_call, ...)
AddTask(r, url) ==
    /\ pc[r] = "idle"
    /\ args' = [args EXCEPT ![r] = [entity_type |-> body.entity_type,
                                    entity_id |-> body.element_id,
                                    record_url |-> url]]
    /\ pc' = [pc EXCEPT ![r] = "dedup_lock"]
    /\ earlier' = [earlier EXCEPT ![r] = EndedRuns]

\* main.py:351-409  get_note_with_recording (amocrm.py:74-113, None on any
\* failure), then the checks of the note and the scheduling of the task
HookGetNote ==
    /\ LoopIdle
    /\ hook_pc = "get_note"
    /\ hook_pc' = "done"
    /\ \/ /\ response' = Answer("note_not_found")
          /\ note_data' = NoneNote
          /\ UNCHANGED <<pc, args, earlier>>
       \/ \E n \in NoteData :
             /\ note_data' = n
             /\ IF ~IsCallNote(n.note_type)
                   THEN response' = Answer("not_a_call") /\ UNCHANGED <<pc, args, earlier>>
                ELSE IF n.params = "null"
                   THEN response' = OnException /\ UNCHANGED <<pc, args, earlier>>
                ELSE IF n.link = NoLink
                   THEN response' = Answer("no_recording") /\ UNCHANGED <<pc, args, earlier>>
                ELSE /\ \E r \in OneRun : AddTask(r, n.link)
                     /\ response' = Answer("processing")
    /\ UNCHANGED <<guardVars, dup, crmVars, runVars, stages, raised, audio_data,
                   full_text, sent, result_text, roleVars, body, geoVars, event_loop,
                   pureVars>>

\* main.py:359  amocrm_service.get_recent_notes: AmoCRMService
\* (amocrm.py:19-598) defines no such method, the attribute lookup raises
HookRecentNotes ==
    /\ LoopIdle
    /\ hook_pc = "recent_notes"
    /\ hook_pc' = "done"
    /\ response' = OnException
    /\ UNCHANGED <<guardVars, pc, args, dup, crmVars, runVars, histVars, roleVars, body,
                   note_data, geoVars, event_loop,
                   pureVars>>

InitHook == Init /\ links \in {<<>>, <<2>>}

\* one request to POST /webhook/amocrm and the task it schedules
NextHook ==
    \/ HookForm \/ HookGetNote \/ HookRecentNotes
    \/ \E r \in OneRun : Step(r, Responses, RunTranscripts)

SpecHook == InitHook /\ [][NextHook]_vars

\* ------------------------------------- identify_roles on a transcript ---
\* main.py:179  roles = transcription_service.identify_roles(transcription.speakers)
IdentifyRoles ==
    /\ roles = NoRoles
    /\ roles' = identify_roles(speakers)
    /\ UNCHANGED <<guardVars, pc, args, dup, crmVars, runVars, histVars, speakers,
                   run_speakers, formatted_transcript, hookVars, geoVars, event_loop, pureVars>>

InitRoles ==
    /\ InitCalls /\ links = <<>>
    /\ NoRequest
    /\ NoFunction
    /\ \E n \in 0..MaxUtterances :
          \E f \in [1..n -> Labels \X Texts] : speakers = Transcript(f)
    /\ roles = NoRoles
    /\ NoTranscription

NextRoles == IdentifyRoles

\* identify_roles applied to every transcript of at most MaxUtterances utterances
SpecRoles == InitRoles /\ [][NextRoles]_vars

\* --------------------------------------------------------- analyze_call ---
\* the longest next_steps list the analysis model answers with
MaxItems == 6

\* analysis.py:252  [:5]
NextStepsLimit == 5

\* str.strip() removes these from both ends
IsSpace(c) == c \in {" ", "\n"}

RECURSIVE LStrip(_)
LStrip(s) == IF s # <<>> /\ IsSpace(Head(s)) THEN LStrip(Tail(s)) ELSE s

RECURSIVE RStrip(_)
RStrip(s) == IF s # <<>> /\ IsSpace(s[Len(s)]) THEN RStrip(SubSeq(s, 1, Len(s) - 1)) ELSE s

\* (variant: the text is taken as it is)
Unstripped(s) == s

\* str.strip()
Strip(s) == RStrip(LStrip(s))

\* JSON values inside a list: a string, by its characters, or a number
StrItem(cs) == [type |-> "string", chars |-> cs, n |-> 0]
NumItem(k) == [type |-> "number", chars |-> <<>>, n |-> k]

\* the items the lists are made of: empty, blank, plain, padded, not a string
ListItems == {StrItem(<<>>), StrItem(<<" ">>), StrItem(<<"a">>),
              StrItem(<<" ", "b", " ">>), NumItem(7)}

\* str() of n >= 0
RECURSIVE Digits(_)
Digits(n) == IF n < 10 THEN <<ToString(n)>> ELSE Digits(n \div 10) \o <<ToString(n % 10)>>

\* str(x)
Str(x) == IF x.type = "string" THEN x.chars ELSE Digits(x.n)

\* analysis.py:35 and 252  [str(x).strip() for x in ... if str(x).strip()]
RECURSIVE StrippedNonBlank(_)
StrippedNonBlank(q) ==
    IF q = <<>> THEN <<>>
    ELSE (IF Strip(Str(Head(q))) # <<>> THEN <<Strip(Str(Head(q)))>> ELSE <<>>)
            \o StrippedNonBlank(Tail(q))

\* (variant: the list is not cut)
Uncut(q) == q

\* analysis.py:252  [:5]
FirstFive(q) == SubSeq(q, 1, IF Len(q) < NextStepsLimit THEN Len(q) ELSE NextStepsLimit)

\* a JSON value: null, a list, a string, anything else (a number, an object)
NoneValue == [type |-> "none", list |-> <<>>, chars |-> <<>>]
ListValue(q) == [type |-> "list", list |-> q, chars |-> <<>>]
StrValue(cs) == [type |-> "str", list |-> <<>>, chars |-> cs]
OtherValue == [type |-> "other", list |-> <<>>, chars |-> <<>>]
\* the key is not in the object
Missing == [type |-> "missing", list |-> <<>>, chars |-> <<>>]

\* Python truth value of a JSON value (OtherValue stands for a non-zero
\* number or a non-empty object)
IsTrue(v) ==
    CASE v.type = "none" -> FALSE
      [] v.type = "list" -> v.list # <<>>
      [] v.type = "str" -> v.chars # <<>>
      [] OTHER -> TRUE

\* dict.get(key): None when the key is missing
Get(v) == IF v.type = "missing" THEN NoneValue ELSE v

\* analysis.py:237-239
NextStepsList(v) ==
    LET next_steps == IF IsTrue(Get(v)) THEN Get(v) ELSE ListValue(<<>>)
    IN  IF next_steps.type = "list" THEN next_steps.list ELSE <<>>

\* the fields of an answer that has them, and manager_name as process_call
\* passes it (main.py:192)
JsonFields ==
    [client_name |-> <<"Ivan">>, manager_name |-> <<"Anna">>, summary |-> <<"sut">>,
     client_city |-> <<"Moskva">>, work_type |-> <<"Mezhevanie">>,
     cost |-> <<"25000">>, payment_terms |-> <<"50/50">>,
     call_result |-> <<"Dogovorilis">>, next_contact_date |-> <<"zavtra">>]
ManagerName == <<"Menedzher">>

\* analysis.py:243-251  result_json.get(name, default)
Defaults ==
    [client_name |-> <<"Klient">>, manager_name |-> ManagerName, summary |-> <<>>,
     client_city |-> <<"Ne ukazano">>, work_type |-> <<"Konsultaciya">>,
     cost |-> <<"Ne obsuzhdali">>, payment_terms |-> <<"Ne obsuzhdali">>,
     call_result |-> <<"Ne opredeleno">>, next_contact_date |-> <<"Ne ukazano">>]
GetField(json, name) ==
    IF json.fields = "present" THEN JsonFields[name] ELSE Defaults[name]

\* analysis.py:237-253
analyze_call(json) ==
    [client_name |-> GetField(json, "client_name"),
     manager_name |-> GetField(json, "manager_name"),
     summary |-> GetField(json, "summary"),
     client_city |-> GetField(json, "client_city"),
     work_type |-> GetField(json, "work_type"),
     cost |-> GetField(json, "cost"),
     payment_terms |-> GetField(json, "payment_terms"),
     call_result |-> GetField(json, "call_result"),
     next_contact_date |-> GetField(json, "next_contact_date"),
     next_steps |-> FirstFive(StrippedNonBlank(NextStepsList(json.next_steps)))]

\* main.py:189  analysis = await analysis_service.analyze_call(...)
AnalyzeCall ==
    /\ fn_pc = "parsed"
    /\ analysis' = analyze_call(result_json)
    /\ fn_pc' = "analyzed"
    /\ UNCHANGED <<guardVars, pc, args, dup, crmVars, runVars, histVars, roleVars, hookVars, geoVars,
                   event_loop, value, items, result_json, note_args, note_text>>

\* ---------------------------------------------------------- format_note ---
\* a line of the note: the literal text of its template and the values put in
Line(kind, parts) == [kind |-> kind, parts |-> parts]
Blank == Line("blank", <<>>)

\* analysis.py:275-278
DurationStr(duration_seconds) ==
    LET minutes == duration_seconds \div 60
        seconds == duration_seconds % 60
    IN  IF minutes # 0 THEN Digits(minutes) \o <<" min ">> \o Digits(seconds) \o <<" sek">>
                       ELSE Digits(seconds) \o <<" sek">>
CallTypeStr(call_type) ==
    IF call_type = "outgoing" THEN <<"Iskhodyashchij">> ELSE <<"Vhodyashchij">>

\* (variant: the block of steps is always written)
AlwaysSteps(a) == TRUE

\* analysis.py:281  if analysis.next_steps
HasSteps(a) == a.next_steps # <<>>

\* analysis.py:280-282
StepsBlock(a) ==
    IF HasSteps(a)
       THEN <<Blank, Line("steps", <<>>)>>
               \o [i \in 1..Len(a.next_steps) |-> Line("step", <<a.next_steps[i]>>)]
       ELSE <<>>

\* analysis.py:284-302
format_note(a, call_type, duration_seconds) ==
    <<Line("header", <<>>),
      Blank,
      Line("direction", <<CallTypeStr(call_type), DurationStr(duration_seconds)>>),
      Blank,
      Line("speakers", <<>>),
      Line("manager", <<a.manager_name>>),
      Line("client", <<a.client_name>>),
      Blank,
      Line("summary_label", <<>>),
      Line("summary", <<a.summary>>),
      Blank,
      Line("city", <<a.client_city>>),
      Line("work", <<a.work_type>>),
      Line("cost", <<a.cost>>),
      Line("payment", <<a.payment_terms>>),
      Line("result", <<a.call_result>>),
      Line("next_contact", <<a.next_contact_date>>)>> \o StepsBlock(a)

\* main.py:188 and 199: the direction and the duration of the call
NoteArgs == [call_type : {"outgoing", "incoming"}, duration_seconds : {59, 125}]

\* main.py:196  note_text = analysis_service.format_note(...)
FormatNote ==
    /\ fn_pc = "analyzed"
    /\ \E a \in NoteArgs :
          /\ note_args' = a
          /\ note_text' = format_note(analysis, a.call_type, a.duration_seconds)
    /\ fn_pc' = "formatted"
    /\ UNCHANGED <<guardVars, pc, args, dup, crmVars, runVars, histVars, roleVars, hookVars, geoVars,
                   event_loop, value, items, result_json, analysis>>

\* the answers of the analysis model that are JSON objects
InitAnalysis ==
    /\ InitCalls /\ links = <<>>
    /\ NoTranscript
    /\ NoRequest
    /\ fn_pc = "parsed"
    /\ value = NoValue
    /\ items = <<>>
    /\ analysis = NoAnalysis
    /\ note_args = NoNoteArgs
    /\ note_text = <<>>
    /\ \E fl \in {"present", "missing"} :
          \/ \E v \in {Missing, NoneValue, OtherValue, StrValue(<<>>), StrValue(<<"a">>)} :
                result_json = [fields |-> fl, next_steps |-> v]
          \/ \E n \in 0..MaxItems :
                \E f \in [1..n -> ListItems] :
                   result_json = [fields |-> fl, next_steps |-> ListValue(f)]

NextAnalysis == AnalyzeCall \/ FormatNote

\* analyze_call and format_note applied to every such answer
SpecAnalysis == InitAnalysis /\ [][NextAnalysis]_vars

\* ------------------------------------------------ _normalize_list_field ---
\* the longest string and the longest list given to _normalize_list_field
MaxChars == 5
MaxListLen == 3

\* the characters of the strings: space, line break, the two bullets ("*"
\* stands for U+2022), a digit, the two closers of a numbering, a letter
Chars == {" ", "\n", "-", "*", "1", ")", ".", "a"}
Bullets == {"-", "*"}
DigitChars == {"1"}
Closers == {")", "."}
\* what \s matches
Spaces == {c \in Chars : IsSpace(c)}

\* str.splitlines(): the pieces between line breaks, without an empty piece
\* after a final line break
RECURSIVE SplitLines(_)
SplitLines(s) ==
    IF s = <<>> THEN <<>>
    ELSE IF \E k \in 1..Len(s) : s[k] = "\n"
       THEN LET k == CHOOSE k \in 1..Len(s) :
                        s[k] = "\n" /\ \A j \in 1..(k - 1) : s[j] # "\n"
            IN  <<SubSeq(s, 1, k - 1)>> \o SplitLines(SubSeq(s, k + 1, Len(s)))
       ELSE <<s>>

\* the first position from i on that holds no character of the class
RECURSIVE SkipWhile(_, _, _)
SkipWhile(s, i, class) ==
    IF i <= Len(s) /\ s[i] \in class THEN SkipWhile(s, i + 1, class) ELSE i

\* analysis.py:43  \s*[-•]\s+  : the length of the match at the start, or 0
BulletMatch(s) ==
    LET b == SkipWhile(s, 1, Spaces)
        e == SkipWhile(s, b + 1, Spaces)
    IN  IF b <= Len(s) /\ s[b] \in Bullets /\ e > b + 1 THEN e - 1 ELSE 0

\* analysis.py:43  \s*\d+\s*[).]\s+  : the length of the match at the start, or 0
NumberMatch(s) ==
    LET d == SkipWhile(s, 1, Spaces)
        c == SkipWhile(s, SkipWhile(s, d, DigitChars), Spaces)
        e == SkipWhile(s, c + 1, Spaces)
    IN  IF SkipWhile(s, d, DigitChars) > d /\ c <= Len(s) /\ s[c] \in Closers /\ e > c + 1
           THEN e - 1 ELSE 0

\* analysis.py:43  re.sub(r"^(...|...)", "", s): the first alternative that matches
Unmarked(s) ==
    LET n == IF BulletMatch(s) > 0 THEN BulletMatch(s) ELSE NumberMatch(s)
    IN  SubSeq(s, n + 1, Len(s))

\* analysis.py:38-45
RECURSIVE LineItems(_)
LineItems(lines) ==
    IF lines = <<>> THEN <<>>
    ELSE LET s == Strip(Head(lines))
             item == Strip(Unmarked(s))
         IN  (IF s # <<>> /\ item # <<>> THEN <<item>> ELSE <<>>) \o LineItems(Tail(lines))

\* str() of the value OtherValue stands for, the number 7
OtherStr == <<"7">>

\* analysis.py:25-49
normalize_list_field(v) ==
    CASE v.type = "none" -> <<>>
      [] v.type = "list" -> StrippedNonBlank(v.list)
      [] v.type = "str" -> LineItems(SplitLines(v.chars))
      [] OTHER -> IF Strip(OtherStr) # <<>> THEN <<Strip(OtherStr)>> ELSE <<>>

\* normalize_list_field(value)
Normalize ==
    /\ fn_pc = "given"
    /\ items' = normalize_list_field(value)
    /\ fn_pc' = "normalized"
    /\ UNCHANGED <<guardVars, pc, args, dup, crmVars, runVars, histVars, roleVars, hookVars, geoVars,
                   event_loop, value, result_json, analysis, note_args, note_text>>

\* None, a list, a string or a number is given
InitNormalize ==
    /\ InitCalls /\ links = <<>>
    /\ NoTranscript
    /\ NoRequest
    /\ fn_pc = "given"
    /\ items = <<>>
    /\ result_json = NoJson
    /\ analysis = NoAnalysis
    /\ note_args = NoNoteArgs
    /\ note_text = <<>>
    /\ \/ value \in {NoneValue, OtherValue}
       \/ \E n \in 0..MaxListLen : \E f \in [1..n -> ListItems] : value = ListValue(f)
       \/ \E n \in 0..MaxChars : \E f \in [1..n -> Chars] : value = StrValue(f)

NextNormalize == Normalize

\* _normalize_list_field applied to every such value
SpecNormalize == InitNormalize /\ [][NextNormalize]_vars

\* ---------------------------------------------- process_uploaded_audio ---
\* the task of the manual upload
UploadRuns == {"r3"}

\* main.py:515-529  upload_audio reads the file and schedules
\* process_uploaded_audio for the deal of the form; a file below the size
\* limit is answered with 400 and schedules nothing
UploadAudio(u) ==
    /\ LoopIdle
    /\ pc[u] = "idle"
    /\ \E size \in AudioSizes, d \in DealIds :
          /\ ~TooSmall(size)
          /\ audio_data' = [audio_data EXCEPT ![u] = size]
          /\ lead_id' = [lead_id EXCEPT ![u] = d]
    /\ pc' = [pc EXCEPT ![u] = "transcribe"]
    /\ UNCHANGED <<guardVars, args, dup, crmVars, lead_ids, idx, target_entity_type,
                   calls, resolved, created, lastRead, stages, raised, full_text, sent,
                   result_text, earlier, otherVars>>

\* main.py:562  transcribe_audio, synchronous on the event loop thread
\* (transcription.py:60-96)
UpTranscribeCall(u) ==
    /\ pc[u] = "transcribe"
    /\ calls' = Invoked(u, "transcribe")
    /\ stages' = Started(u, "transcribe")
    /\ pc' = [pc EXCEPT ![u] = "transcribing"]
    /\ event_loop' = u
    /\ UNCHANGED <<guardVars, args, dup, crmVars, lead_ids, idx, lead_id,
                   target_entity_type, resolved, created, lastRead, raised,
                   audio_data, full_text, sent, result_text, earlier,
                   roleVars, hookVars, geoVars, pureVars>>

\* main.py:562-574: the SDK call returns or raises (main.py:618 logs), then
\* the length gate, identify_roles and format_with_roles
UpTranscribe(u, transcripts) ==
    /\ pc[u] = "transcribing"
    /\ event_loop' = NoRun
    /\ \/ /\ pc' = [pc EXCEPT ![u] = "failed"]
          /\ raised' = [raised EXCEPT ![u] = "transcribe"]
          /\ UNCHANGED <<full_text, stages, run_speakers, formatted_transcript>>
       \/ \E chars \in TextSizes, q \in transcripts :
             /\ full_text' = [full_text EXCEPT ![u] = chars]
             /\ run_speakers' = [run_speakers EXCEPT ![u] = q]
             /\ IF chars = 0 \/ chars < MinTextChars
                   THEN /\ pc' = [pc EXCEPT ![u] = "aborted"]
                        /\ UNCHANGED <<stages, formatted_transcript>>
                   ELSE /\ pc' = [pc EXCEPT ![u] = "analyze"]
                        /\ stages' = Started(u, "identify_roles")
                        /\ formatted_transcript' =
                              [formatted_transcript EXCEPT
                                  ![u] = format_with_roles(q, identify_roles(q))]
             /\ UNCHANGED raised
    /\ UNCHANGED <<guardVars, args, dup, crmVars, lead_ids, idx, lead_id,
                   target_entity_type, calls, resolved, created, lastRead, audio_data,
                   sent, result_text, earlier, speakers, roles, hookVars, geoVars, pureVars>>

\* main.py:579-591  analyze_call, which raises on an answer that is no JSON
\* object (analysis.py:258-263), then format_note
UpAnalyze(u, responses) ==
    /\ pc[u] = "analyze"
    /\ calls' = Invoked(u, "analyze")
    /\ \/ \E text \in responses :
             /\ result_text' = [result_text EXCEPT ![u] = text]
             /\ IF YieldsAnalysis(text)
                   THEN /\ pc' = [pc EXCEPT ![u] = "add_note"]
                        /\ stages' = [stages EXCEPT ![u] =
                                         @ \o <<"analyze", "format_note">>]
                        /\ UNCHANGED raised
                   ELSE /\ pc' = [pc EXCEPT ![u] = "failed"]
                        /\ stages' = Started(u, "analyze")
                        /\ raised' = [raised EXCEPT ![u] = "analyze"]
       \/ /\ pc' = [pc EXCEPT ![u] = "failed"]
          /\ stages' = Started(u, "analyze")
          /\ raised' = [raised EXCEPT ![u] = "analyze"]
          /\ UNCHANGED result_text
    /\ UNCHANGED <<guardVars, args, dup, crmVars, lead_ids, idx, lead_id,
                   target_entity_type, resolved, created, lastRead,
                   audio_data, full_text, sent, earlier, otherVars>>

\* main.py:595  add_note_to_entity(lead_id, note_text, "leads")
UpAddNote(u) ==
    /\ pc[u] = "add_note"
    /\ calls' = Invoked(u, "add_note")
    /\ stages' = Started(u, "add_note")
    /\ \E ok \in BOOLEAN :
          IF ok
             THEN /\ note' = [note EXCEPT ![u] = [entity_type |-> "leads",
                                                 entity_id |-> lead_id[u]]]
                  /\ pc' = [pc EXCEPT ![u] = "telegram"]
                  /\ UNCHANGED raised
             ELSE /\ pc' = [pc EXCEPT ![u] = "failed"]
                  /\ raised' = [raised EXCEPT ![u] = "add_note"]
                  /\ UNCHANGED note
    /\ UNCHANGED <<guardVars, args, dup, links, status, lead_ids, idx, lead_id,
                   target_entity_type, resolved, created, lastRead,
                   audio_data, full_text, sent, result_text, earlier, otherVars>>

\* main.py:602-614: the call expression needs the method send_call_analysis of
\* TelegramService (telegram.py:16-139 defines the methods listed) and reads
\* six attributes of the CallAnalysis (analysis.py:86-99 declares the fields
\* listed); either lookup raises AttributeError when the name is missing
UploadCanNotify ==
    LET methods == {"is_configured", "send_message", "send_error", "send_success",
                    "send_startup", "send_shutdown"}
        fields == {"client_name", "manager_name", "summary", "client_city", "work_type",
                   "cost", "payment_terms", "call_result", "next_contact_date",
                   "next_steps"}
        reads == {"manager_name", "client_name", "summary", "manager_rating",
                  "what_good", "what_improve"}
    IN "send_call_analysis" \in methods /\ reads \subseteq fields

\* main.py:598-619: the notification; its exception is logged by the except
\* of main.py:618
UpNotify(u) ==
    /\ pc[u] = "telegram"
    /\ calls' = Invoked(u, "telegram")
    /\ stages' = Started(u, "telegram")
    /\ IF UploadCanNotify
          THEN /\ pc' = [pc EXCEPT ![u] = "done"]
               /\ sent' = [sent EXCEPT ![u] = Append(@, "send_call_analysis")]
               /\ UNCHANGED raised
          ELSE /\ pc' = [pc EXCEPT ![u] = "failed"]
               /\ raised' = [raised EXCEPT ![u] = "telegram"]
               /\ UNCHANGED sent
    /\ UNCHANGED <<guardVars, args, dup, crmVars, lead_ids, idx, lead_id,
                   target_entity_type, resolved, created, lastRead,
                   audio_data, full_text, result_text, earlier, otherVars>>

\* every step of process_uploaded_audio
UploadStep(u) ==
    /\ CanRun(u)
    /\ \/ UpTranscribeCall(u) \/ UpTranscribe(u, RunTranscripts)
       \/ UpAnalyze(u, Responses) \/ UpAddNote(u) \/ UpNotify(u)

\* the event of the run the upload is compared with: a call of deal 2
UploadEvents ==
    {e \in CallEvents : e.entity_type = "leads" /\ e.entity_id = 2
                        /\ e.record_url = "https://rec/a"}

\* the steps of process_call for an event that references a deal
CallStep(r) ==
    /\ CanRun(r)
    /\ \/ Acquire(r) \/ Test(r) \/ Add(r) \/ Release(r)
       \/ Manager(r) \/ GetUser(r) \/ Download(r) \/ TranscribeCall(r)
       \/ Transcribe(r, RunTranscripts)
       \/ Analyze(r, Responses) \/ AddNote(r) \/ Notify(r)

InitUpload == Init /\ links = <<>>

\* one delivery to the call webhook and one manual upload
NextUpload ==
    \/ \E r \in OneRun : Deliver(r, UploadEvents) \/ CallStep(r)
    \/ \E u \in UploadRuns : UploadAudio(u) \/ UploadStep(u)

SpecUpload == InitUpload /\ [][NextUpload]_vars

\* ----------------------------------------------------- notify_geodesist ---
\* handler.py:37  `if len(_PROCESSED) > 5000`
ProcessedLimit == 5000

\* GEODESIST_1_PHONE of the configuration
GEODESIST_1_PHONE == "89620000000"

\* wappi_max.py:13-24: the digits, a leading 8 of eleven digits made a 7;
\* the empty string for a string without digits
normalize_phone_ru(phone) ==
    IF phone = GEODESIST_1_PHONE THEN "79620000000" ELSE ""

\* main.py:466-475: the payloads of the deliveries, all for deal 1: the
\* geodesist named by number or not at all, no phone given; the details of
\* the visit are left to the CRM
Payloads ==
    [lead_id : {1}, geodesist : {"", "1"}, geodesist_phone : {""}, details : {FALSE}]

\* handler.py:145  f"lead:{lead_id}:g:{geodesist or geodesist_phone or ''}"
DedupKey(p) ==
    <<p.lead_id, IF p.geodesist # "" THEN p.geodesist ELSE p.geodesist_phone>>

\* handler.py:103-129 on the payloads above
resolve_geodesist_phone(p) ==
    IF p.geodesist_phone # "" THEN normalize_phone_ru(p.geodesist_phone)
    ELSE IF p.geodesist = "1" THEN normalize_phone_ru(GEODESIST_1_PHONE)
    ELSE normalize_phone_ru(p.geodesist)

\* len(_PROCESSED)
ProcessedLen == Cardinality(PROCESSED) + others

GeoEnded(t) == geo_pc[t] \in {"skipped", "raised", "done"}

\* main.py:477  background_tasks.add_task(notify_geodesist, payload)
GeoDeliver(t) ==
    /\ geo_pc[t] = "idle"
    /\ \E p \in Payloads : payload' = [payload EXCEPT ![t] = p]
    /\ geo_pc' = [geo_pc EXCEPT ![t] = "dedup"]
    /\ before' = [before EXCEPT ![t] = {o \in GeoTasks : GeoEnded(o)}]
    /\ UNCHANGED <<PROCESSED, others, geo_dup, geo_sent, geo_note, cleared,
                   callVars>>

\* (variant: the key is not marked)
MarkedLate(key) == IF ProcessedLen > ProcessedLimit THEN {} ELSE PROCESSED

\* handler.py:37-39  clear when over the limit, add
Marked(key) == (IF ProcessedLen > ProcessedLimit THEN {} ELSE PROCESSED) \cup {key}

\* handler.py:145-172: _dedup (handler.py:30-40: the lock is free whenever a
\* task runs, since its holder does not await before releasing it), then the
\* phone of the geodesist, which raises ValueError when it is empty, and the
\* choice between the details of the payload and the CRM
Dedup(t) ==
    /\ geo_pc[t] = "dedup"
    /\ LET key == DedupKey(payload[t]) IN
       IF key \in PROCESSED
          THEN /\ geo_dup' = [geo_dup EXCEPT ![t] = "True"]
               /\ geo_pc' = [geo_pc EXCEPT ![t] = "skipped"]
               /\ UNCHANGED <<PROCESSED, others, cleared>>
          ELSE /\ PROCESSED' = Marked(key)
               /\ others' = IF ProcessedLen > ProcessedLimit THEN 0 ELSE others
               /\ cleared' = [o \in GeoTasks |->
                                IF o = t THEN FALSE
                                ELSE cleared[o] \/ ProcessedLen > ProcessedLimit]
               /\ geo_dup' = [geo_dup EXCEPT ![t] = "False"]
               /\ geo_pc' = [geo_pc EXCEPT ![t] =
                                IF resolve_geodesist_phone(payload[t]) = "" THEN "raised"
                                ELSE IF payload[t].details THEN "send"
                                ELSE "get_lead"]
    /\ UNCHANGED <<payload, geo_sent, geo_note, before,
                   callVars>>

\* handler.py:162-165  get_lead and, for a deal with a contact, get_contact
\* (amocrm.py:275-320: both raise again)
GetLead(t) ==
    /\ geo_pc[t] = "get_lead"
    /\ \E next \in {"raised", "send"} : geo_pc' = [geo_pc EXCEPT ![t] = next]
    /\ UNCHANGED <<PROCESSED, others, payload, geo_dup, geo_sent, geo_note, cleared, before,
                   callVars>>

\* handler.py:200-201  send_text (wappi_max.py:37-60): an error status raises
SendText(t) ==
    /\ geo_pc[t] = "send"
    /\ \E ok \in BOOLEAN :
          /\ geo_sent' = [geo_sent EXCEPT ![t] = ok]
          /\ geo_pc' = [geo_pc EXCEPT ![t] = IF ok THEN "note" ELSE "raised"]
    /\ UNCHANGED <<PROCESSED, others, payload, geo_dup, geo_note, cleared, before,
                   callVars>>

\* handler.py:204-214  add_note_to_entity(payload.lead_id, note_text, "leads")
GeoAddNote(t) ==
    /\ geo_pc[t] = "note"
    /\ \E ok \in BOOLEAN :
          /\ geo_note' = [geo_note EXCEPT ![t] = ok]
          /\ geo_pc' = [geo_pc EXCEPT ![t] = IF ok THEN "done" ELSE "raised"]
    /\ UNCHANGED <<PROCESSED, others, payload, geo_dup, geo_sent, cleared, before,
                   callVars>>

\* notify_geodesist of a task outside GeoTasks, with a key of its own
OtherKey ==
    /\ PROCESSED' = IF ProcessedLen > ProcessedLimit THEN {} ELSE PROCESSED
    /\ others' = IF ProcessedLen > ProcessedLimit THEN 1 ELSE others + 1
    /\ cleared' = [o \in GeoTasks |-> cleared[o] \/ ProcessedLen > ProcessedLimit]
    /\ UNCHANGED <<geo_pc, payload, geo_dup, geo_sent, geo_note, before,
                   callVars>>

InitGeodesist == Init /\ links = <<>>

\* two deliveries to the geodesist webhook among any number of others
NextGeodesist ==
    \/ \E t \in GeoTasks :
          \/ GeoDeliver(t) \/ Dedup(t) \/ GetLead(t) \/ SendText(t) \/ GeoAddNote(t)
    \/ OtherKey

SpecGeodesist == InitGeodesist /\ [][NextGeodesist]_vars

\* ------------------------------------------------------------ fairness ---
\* main.py:86-253: the event loop goes on with a run whenever the call it
\* awaits has returned or raised, and every awaited call does one of the two
Fairness == \A r \in OneRun : WF_vars(Step(r, Responses, RunTranscripts))

\* one delivery of any event, every call of its run returning or raising
SpecFair == Init /\ [][Next]_vars /\ Fairness

\* ================================================================ claims ==
\* the calls of is_already_processed(u) that have their return value
Returned(u) == {r \in Runs : args[r].record_url = u /\ dup[r] # NoResult}

InCriticalSection(r) == pc[r] \in {"dedup_test", "dedup_add", "dedup_exit"}

\* C1: among the concurrent calls of is_already_processed with one key that was
\* not in the set (and with no clear in between), exactly one returns False and
\* all others True, whatever the interleaving; the membership test and the
\* insertion of a call lie in one critical section of PROCESSED_LOCK, which at
\* most one call is in.
C1_ExactlyOneUnseen ==
    /\ \A u \in Urls :
          (~clears /\ Returned(u) # {})
             => Cardinality({r \in Returned(u) : dup[r] = "False"}) = 1
    /\ \A r \in Runs : InCriticalSection(r) => PROCESSED_LOCK = r
    /\ Cardinality({r \in Runs : InCriticalSection(r)}) <= 1

\* three deliveries of one url have all returned from the check
C1_Witness ==
    \E u \in Urls :
       /\ Returned(u) = Runs
       /\ \A r \in Runs : ~InCriticalSection(r)
       /\ Cardinality({r \in Runs : dup[r] = "True"}) = 2

\* C2: within one retention window (no clear of the set in between) a key is
\* reported unseen at most once, and a key that was reported unseen is in the
\* set, so that every later call with it returns True.
C2_NeverUnseenTwice ==
    \A u \in Urls : unseen[u] <= 1 /\ (unseen[u] = 1 => u \in PROCESSED_CALLS)

\* two calls with one key, one after the other, have returned (False, True)
C2_Witness ==
    \E a, b \in Runs :
       /\ a # b
       /\ args[a].record_url = args[b].record_url
       /\ pc[a] = "manager" /\ dup[a] = "False"
       /\ pc[b] = "skipped" /\ dup[b] = "True"

C5_KeyRetained ==
    \A r \in Runs : pc[r] = "dedup_exit" => args[r].record_url \in PROCESSED_CALLS

\* a call returns False right after it cleared the full set
C5_Witness ==
    \E r \in Runs :
       /\ pc[r] = "dedup_exit" /\ dup[r] = "False"
       /\ clears /\ CacheLen = 1

\* the states of a run in which lead_id is the target of the note to come
PipelinePcs == {"manager", "get_user", "download", "transcribe", "transcribing", "analyze",
                "add_note", "telegram"}

ResolutionOps == {"get_contact", "links", "lead", "create_lead"}

\* C3: while a url stays in the dedup set, at most one of the runs delivered
\* with it gets past the dedup check; every other run invokes no collaborator
\* at all (no CRM read or write, download, transcription, analysis,
\* notification), so at most one note is written for the url.
C3_OneRunPerUrl ==
    \A u \in Urls :
       LET rs == {r \in Runs : args[r].record_url = u} IN
       ~clears =>
          /\ Cardinality({r \in rs : dup[r] = "False"}) <= 1
          /\ \A r \in rs :
                dup[r] # "False"
                   => calls[r] = NoCalls /\ note[r] = NoNote /\ created[r] = None
          /\ Cardinality({r \in rs : note[r] # NoNote}) <= 1

\* two deliveries of one url: one wrote its note, the other one was skipped
C3_Witness ==
    \E a, b \in Runs :
       /\ args[a].record_url = args[b].record_url
       /\ note[a] # NoNote
       /\ pc[b] = "skipped"

\* C6: the note target of a run for a contact event is a deal of entity type
\* leads that is either a linked deal whose status, as this run read it, was
\* neither 142 nor 143, or the deal this run created.
C6_TargetOpenOrCreated ==
    \A r \in Runs :
       (args[r].entity_type = "contacts" /\ (pc[r] \in PipelinePcs \/ note[r] # NoNote))
          => /\ target_entity_type[r] = "leads"
             /\ \/ created[r] # None /\ lead_id[r] = created[r]
                \/ /\ lead_id[r] \in SeqRange(lead_ids[r])
                   /\ lastRead[r].deal = lead_id[r]
                   /\ lastRead[r].status \notin CLOSED_STATUSES
             /\ note[r] # NoNote
                   => note[r] = [entity_type |-> "leads", entity_id |-> lead_id[r]]

\* the note went to the second linked deal, the first one having been read as closed
C6_Witness ==
    \E r \in Runs :
       /\ args[r].entity_type = "contacts"
       /\ Len(lead_ids[r]) = 2
       /\ status[lead_ids[r][1]] \in CLOSED_STATUSES
       /\ note[r] = [entity_type |-> "leads", entity_id |-> lead_ids[r][2]]

\* the deals linked to the contact before run r created one
PriorLinks(r) ==
    LET Keep(d) == d # created[r] IN SelectSeq(links, Keep)

OpenAt(q) == {i \in 1..Len(q) : status[q[i]] \notin CLOSED_STATUSES}

FirstOpen(q) == q[CHOOSE i \in OpenAt(q) : \A j \in OpenAt(q) : i <= j]

\* C7: for a contact with at least one open linked deal, resolution returns the
\* first open deal of the link listing and calls no deal creation.
C7_FirstOpenNoWrite ==
    \A r \in Runs :
       (args[r].entity_type = "contacts" /\ OpenAt(PriorLinks(r)) # {})
          => /\ calls[r]["create_lead"] = 0
             /\ resolved[r] # Unresolved => resolved[r] = FirstOpen(PriorLinks(r))

\* C8: for a contact without an open linked deal, a resolution that returned
\* has called the deal creation exactly once, and the run uses the id the
\* creation returned as its note target.
C8_CreatedOnceAndUsed ==
    \A r \in Runs :
       (args[r].entity_type = "contacts" /\ OpenAt(PriorLinks(r)) = {})
          => /\ resolved[r] # Unresolved => calls[r]["create_lead"] = 1
             /\ created[r] # None
                   => /\ pc[r] \in PipelinePcs \cup {"failed", "aborted"}
                      /\ lead_id[r] = created[r]
                      /\ target_entity_type[r] = "leads"

\* C9: resolution creates a deal only for a contact whose link set is empty or
\* whose linked deals are all closed, also when a CRM read fails.
C9_CreateOnlyWithoutOpen ==
    \A r \in Runs :
       created[r] # None => OpenAt(PriorLinks(r)) = {}

\* C10: a run for an event that references a deal reads no contact, lists no
\* links, reads no deal status and creates no deal; its note target is the
\* id of the event, as entity type leads.
C10_DealEventUnchanged ==
    \A r \in Runs :
       args[r].entity_type = "leads"
          => /\ \A o \in ResolutionOps : calls[r][o] = 0
             /\ created[r] = None
             /\ pc[r] \in PipelinePcs
                   => lead_id[r] = args[r].entity_id /\ target_entity_type[r] = "leads"
             /\ note[r] # NoNote
                   => note[r] = [entity_type |-> "leads", entity_id |-> args[r].entity_id]

\* the note of a deal event was written to the deal of the event
C10_Witness ==
    \E r \in Runs :
       /\ args[r].entity_type = "leads"
       /\ note[r] = [entity_type |-> "leads", entity_id |-> args[r].entity_id]

StageOps == {"download", "transcribe", "analyze", "add_note", "telegram"}

\* C11: a run for a contact event whose contact read raised, or whose deal
\* creation returned nothing, has ended without starting any stage: no
\* download, transcription, analysis or note write was invoked, and no note
\* was written to any entity.
C11_ResolutionFailureEndsRun ==
    \A r \in Runs :
       (IsContactType(args[r].entity_type)
           /\ (raised[r] = "get_contact" \/ resolved[r] = None))
          => /\ pc[r] \in {"failed", "aborted"}
             /\ stages[r] = <<>>
             /\ \A o \in StageOps : calls[r][o] = 0
             /\ note[r] = NoNote

\* the contact has only closed deals, the creation failed and the run has ended
C11_Witness ==
    \E r \in Runs :
       /\ args[r].entity_type = "contacts"
       /\ links # <<>>
       /\ \A d \in SeqRange(links) : status[d] \in CLOSED_STATUSES
       /\ calls[r]["create_lead"] = 1
       /\ resolved[r] = None
       /\ pc[r] = "aborted"

\* C12: the mapping identify_roles returns has exactly the distinct labels of
\* its input as keys, every value is a role, and for an input with two distinct
\* labels one label is the manager and the other one the client.
C12_TotalAndOneOfEach ==
    roles # NoRoles
       => /\ DOMAIN roles = SpeakerLabels(speakers)
          /\ \A l \in DOMAIN roles : roles[l] \in {Manager_, Client_}
          /\ Cardinality(SpeakerLabels(speakers)) = 2
                => Cardinality(Managers(roles)) = 1

\* two labels with texts without any indicator got one manager and one client
C12_Witness ==
    /\ roles # NoRoles
    /\ Cardinality(SpeakerLabels(speakers)) = 2
    /\ \A i \in DOMAIN speakers : speakers[i].text = <<"allo">>
    /\ Cardinality(Managers(roles)) = 1

\* the start of the first utterance of a label
FirstStart(q, l) ==
    LET starts == {q[i].start_ms : i \in {j \in DOMAIN q : q[j].label = l}}
    IN CHOOSE t \in starts : \A u \in starts : t <= u

\* the label that speaks first in the recording
Earliest(q) ==
    CHOOSE l \in SpeakerLabels(q) :
       \A k \in SpeakerLabels(q) : FirstStart(q, l) <= FirstStart(q, k)

\* C13: for an input with two distinct labels whose keyword scores did not give
\* exactly one manager, identify_roles makes the label whose first utterance
\* starts earliest the manager and the other label the client.
C13_EarliestIsManager ==
    (/\ roles # NoRoles
     /\ Cardinality(SpeakerLabels(speakers)) = 2
     /\ Cardinality(Managers(Scored(speakers))) # 1)
       => \A l \in SpeakerLabels(speakers) :
             roles[l] = IF l = Earliest(speakers) THEN Manager_ ELSE Client_

\* the keyword scores of a label of the input
ManagerScoreOf(l) == manager_score(JoinedText(speakers, l))
ClientScoreOf(l) == client_score(JoinedText(speakers, l))

\* the labels whose manager score is strictly greater than their client score
ScoreManagers ==
    {l \in SpeakerLabels(speakers) : ManagerScoreOf(l) > ClientScoreOf(l)}

\* C14: for an input whose number of distinct labels is not two, or is two with
\* exactly one label scored as manager, the role of every label is manager if
\* and only if its manager score is strictly greater than its client score
\* (equal scores give client); nothing is overridden.
C14_ScoreDecides ==
    (/\ roles # NoRoles
     /\ \/ Cardinality(SpeakerLabels(speakers)) # 2
        \/ Cardinality(ScoreManagers) = 1)
       => \A l \in SpeakerLabels(speakers) :
             (roles[l] = Manager_) <=> (ManagerScoreOf(l) > ClientScoreOf(l))

\* three labels: one with equal scores of 1 and two without any indicator, all
\* of them clients
C14_Witness ==
    /\ roles # NoRoles
    /\ Cardinality(SpeakerLabels(speakers)) = 3
    /\ \E l \in SpeakerLabels(speakers) : ManagerScoreOf(l) = 1 /\ ClientScoreOf(l) = 1
    /\ Managers(roles) = {}

\* C15: a run whose downloaded audio is shorter than 10000 bytes has stopped
\* right after the download: transcription, analysis, note write and
\* notification were not invoked; a run whose audio has 10000 bytes or more is
\* at the transcription or past it.
C15_AudioGate ==
    \A r \in Runs :
       audio_data[r] # NoLen
          => IF audio_data[r] < MinAudioBytes
                THEN /\ pc[r] = "aborted"
                     /\ stages[r] = <<"download">>
                     /\ \A o \in StageOps \ {"download"} : calls[r][o] = 0
                     /\ note[r] = NoNote
                ELSE pc[r] = "transcribe" \/ calls[r]["transcribe"] = 1

\* audio of 9999 bytes: the run has stopped
C15_Witness ==
    \E r \in Runs : audio_data[r] = MinAudioBytes - 1 /\ pc[r] = "aborted"

\* C16: a run whose transcript text is empty or shorter than 50 characters has
\* stopped right after the transcription: roles were not classified, analysis,
\* note write and notification were not invoked; a run whose text has 50
\* characters or more has classified the roles and is at the analysis or past it.
C16_TextGate ==
    \A r \in Runs :
       full_text[r] # NoLen
          => IF full_text[r] < MinTextChars
                THEN /\ pc[r] = "aborted"
                     /\ stages[r] = <<"download", "transcribe">>
                     /\ \A o \in {"analyze", "add_note", "telegram"} : calls[r][o] = 0
                     /\ note[r] = NoNote
                ELSE /\ SubSeq(stages[r], 1, 3) = <<"download", "transcribe", "identify_roles">>
                     /\ pc[r] = "analyze" \/ calls[r]["analyze"] = 1

\* a text of 49 characters: the run has stopped
C16_Witness ==
    \E r \in Runs : full_text[r] = MinTextChars - 1 /\ pc[r] = "aborted"

\* the stages of main.py:163-247 in program order
StageOrder == <<"download", "transcribe", "identify_roles", "analyze",
                "format_note", "add_note", "telegram">>

IsPrefix(a, b) == Len(a) <= Len(b) /\ SubSeq(b, 1, Len(a)) = a

\* C17: the stages a run has started are an initial part of download,
\* transcribe, classify roles, analyze, format note, write note, notify; a stage
\* that raised is the last one started, and a stage behind a length gate is
\* started only with a result that passed the gate; a note is written only
\* by a run whose download, transcription, analysis and formatting succeeded,
\* and the notification is attempted only by a run that wrote its note.
C17_StagesInOrder ==
    \A r \in Runs :
       /\ IsPrefix(stages[r], StageOrder)
       /\ raised[r] \in SeqRange(StageOrder)
             => stages[r] # <<>> /\ stages[r][Len(stages[r])] = raised[r]
       /\ "transcribe" \in SeqRange(stages[r]) => audio_data[r] >= MinAudioBytes
       /\ "identify_roles" \in SeqRange(stages[r]) => full_text[r] >= MinTextChars
       /\ note[r] # NoNote
             => /\ IsPrefix(SubSeq(StageOrder, 1, 6), stages[r])
                /\ raised[r] \notin {"download", "transcribe", "analyze", "add_note"}
       /\ "telegram" \in SeqRange(stages[r]) => note[r] # NoNote

\* a run has gone through all seven stages
C17_Witness ==
    \E r \in Runs : stages[r] = StageOrder /\ note[r] # NoNote

\* C18: a run that has aborted or failed without having written its note has
\* written nothing to the CRM: no note and no deal.
C18_NoWriteBeforePersist ==
    \A r \in Runs :
       (pc[r] \in {"aborted", "failed"} /\ note[r] = NoNote)
          => created[r] = None

\* C19: a run invokes each of download, transcription, analysis, note write
\* and notification at most once; once a stage has raised, it was invoked
\* exactly once, the run has ended and no later stage was invoked.
C19_EachStageOnce ==
    \A r \in Runs :
       /\ \A o \in StageOps : calls[r][o] <= 1
       /\ \A i \in DOMAIN StageOrder :
             raised[r] = StageOrder[i]
                => /\ pc[r] = "failed"
                   /\ calls[r][raised[r]] = 1
                   /\ \A j \in DOMAIN StageOrder :
                         (j > i /\ StageOrder[j] \in StageOps)
                            => calls[r][StageOrder[j]] = 0

\* the transcription of a run raised: invoked once, nothing after it
C19_Witness ==
    \E r \in Runs :
       /\ raised[r] = "transcribe"
       /\ calls[r]["download"] = 1 /\ calls[r]["transcribe"] = 1
       /\ calls[r]["analyze"] = 0

HookStatuses == {"ignored", "note_not_found", "not_a_call", "no_recording",
                 "processing", "error"}

\* C20: every answer of amocrm_webhook has HTTP status 200: for a payload that
\* is not a note, a note that is not found, a note that is no call, a call
\* without recording, an accepted call and an exception raised on the way; and
\* the handler has answered whenever it is through.
C20_AlwaysOk ==
    /\ response # NoResponse
          => response.status_code = StatusOk /\ response.status \in HookStatuses
    /\ hook_pc = "done" <=> response # NoResponse

\* the lookup of the recent notes raised after the form was read: answered 200
C20_Witness ==
    /\ Truthy(body.element_id) /\ ~Truthy(body.note_id)
    /\ response.status = "error"
    /\ response.status_code = StatusOk

\* ------------------------------------------------- after the note write ---

\* C21: when the notification stage fails after the note was written, the
\* note is still the one written to the target, the note write and the
\* notification were each attempted once, and the run has returned normally.
C21_NoteStaysAfterNotifyFails ==
    \A r \in OneRun :
        raised[r] = "telegram"
            => /\ note[r] = [entity_type |-> target_entity_type[r],
                             entity_id |-> lead_id[r]]
               /\ calls[r]["add_note"] = 1
               /\ calls[r]["telegram"] = 1
               /\ pc[r] = "failed"

C21_Witness ==
    \E r \in OneRun :
        /\ raised[r] = "telegram"
        /\ pc[r] = "failed"
        /\ note[r] # NoNote
        /\ target_entity_type[r] = "leads"

\* C22: a run that was skipped as a duplicate, aborted at a gate or ended by
\* a failure up to the note write has sent nothing to the operator channel,
\* and no run ever sends an error notification.
C22_SilentUnlessNotified ==
    \A r \in PipeRuns :
        /\ "send_error" \notin SeqRange(sent[r])
        /\ (Ended(r) /\ raised[r] # "telegram") => sent[r] = <<>>

C22_Witness ==
    \E a, b \in PipeRuns :
        /\ pc[a] = "skipped" /\ sent[a] = <<>>
        /\ pc[b] = "failed" /\ raised[b] = "add_note" /\ sent[b] = <<>>

\* C23: a run whose collaborators all succeeded and that wrote the note ends
\* as a success after sending the operator notification exactly once.
C23_SuccessNotifies ==
    \A r \in OneRun :
        (note[r] # NoNote /\ Ended(r))
            => /\ pc[r] = "done"
               /\ sent[r] = <<"call_analysis">>

\* C26: whatever call of a run failed, the dedup check included, the run has
\* ended by returning normally and nothing was raised to its caller.
C26_NeverRaises ==
    \A r \in OneRun : raised[r] # NoRaise => pc[r] = "failed"

\* C25: an answer of the analysis model that is not JSON, not an object,
\* lacks fields or has a next_steps that is not a list makes analyze_call
\* fail: the run has ended there and no note was written.
C25_MalformedIsHardFailure ==
    \A r \in OneRun :
        (result_text[r] # NoText /\ result_text[r] # "well_formed")
            => /\ raised[r] = "analyze"
               /\ pc[r] = "failed"
               /\ note[r] = NoNote

\* C30: once a run for a recording url has ended in a gate abort or in a
\* stage failure, a delivery of the same url that was scheduled later and has
\* been through the dedup check, with the url still in the set, was told it is
\* a duplicate: it made no collaborator call, started no stage and wrote no note.
C30_NoReprocessing ==
    \A a, b \in PipeRuns :
        (/\ a \in earlier[b]
         /\ pc[a] \in {"aborted", "failed"}
         /\ dup[a] = "False"
         /\ args[b].record_url = args[a].record_url
         /\ args[a].record_url \in PROCESSED_CALLS
         /\ pc[b] \notin {"dedup_lock", "dedup_test"})
            => /\ dup[b] = "True"
               /\ pc[b] \in {"dedup_exit", "skipped"}
               /\ calls[b] = NoCalls
               /\ stages[b] = <<>>
               /\ note[b] = NoNote

C30_Witness ==
    \E a, b \in PipeRuns :
        /\ a \in earlier[b]
        /\ pc[a] = "aborted"
        /\ audio_data[a] = MinAudioBytes - 1
        /\ args[b].record_url = args[a].record_url
        /\ pc[b] = "skipped"

\* C24: whatever call the other runs are waiting in, a run that has been
\* scheduled and has not ended can take its next step unless it waits for the
\* lock of the dedup check, and a new delivery can be admitted.
C24_OthersCanProgress ==
    \A b \in PipeRuns :
        /\ pc[b] = "idle" => ENABLED DeliverPair(b)
        /\ (pc[b] # "idle" /\ ~Ended(b) /\ ~(pc[b] = "dedup_lock" /\ ~LockFree))
              => ENABLED Step(b, PairResponses, PairTranscripts)

\* ------------------------------------------------ analyze_call, next_steps ---
\* the text has a character that is not whitespace
NonBlank(t) == \E j \in 1..Len(t) : ~IsSpace(t[j])

\* s is t without the whitespace at its two ends
IsStripped(s, t) ==
    /\ s # <<>> /\ ~IsSpace(s[1]) /\ ~IsSpace(s[Len(s)])
    /\ \E i, j \in 1..Len(t) :
          /\ s = SubSeq(t, i, j)
          /\ \A k \in 1..Len(t) : (k < i \/ k > j) => IsSpace(t[k])

\* the list the answer carries under next_steps, empty when it carries none
AnsweredSteps ==
    IF result_json.next_steps.type = "list" THEN result_json.next_steps.list ELSE <<>>

\* the positions of the non-blank items of the answer, and the k-th of them
NonBlankAt == {i \in 1..Len(AnsweredSteps) : NonBlank(Str(AnsweredSteps[i]))}
KthNonBlank(k) ==
    CHOOSE i \in NonBlankAt : Cardinality({j \in NonBlankAt : j <= i}) = k

\* C27: the next_steps of the CallAnalysis has at most 5 items; they are the
\* first five non-blank items of the answered list, in order, each as text
\* without whitespace at its ends and never empty; an answer whose next_steps
\* is missing or not a list gives the empty list.
C27_NextStepsShape ==
    fn_pc # "parsed" =>
        LET ns == analysis.next_steps IN
        /\ Len(ns) <= NextStepsLimit
        /\ Len(ns) = IF Cardinality(NonBlankAt) < NextStepsLimit
                        THEN Cardinality(NonBlankAt) ELSE NextStepsLimit
        /\ \A k \in 1..Len(ns) : IsStripped(ns[k], Str(AnsweredSteps[KthNonBlank(k)]))
        /\ result_json.next_steps.type # "list" => ns = <<>>

\* six non-blank items, the first padded and the second a number, cut to five
C27_Witness ==
    /\ fn_pc = "analyzed"
    /\ Cardinality(NonBlankAt) = MaxItems
    /\ AnsweredSteps[1] = StrItem(<<" ", "b", " ">>)
    /\ AnsweredSteps[2] = NumItem(7)
    /\ AnsweredSteps[MaxItems] = StrItem(<<"a">>)
    /\ Len(analysis.next_steps) = NextStepsLimit
    /\ analysis.next_steps[1] = <<"b">>
    /\ analysis.next_steps[2] = <<"7">>

\* ---------------------------------------------------------- format_note ---
\* the lines of the note of one kind
LinesOf(kind) == {i \in 1..Len(note_text) : note_text[i].kind = kind}
LineOf(kind) == CHOOSE i \in LinesOf(kind) : TRUE

\* the sections every note has, top to bottom, with the value each one shows
Sections ==
    <<"header", "direction", "speakers", "manager", "client", "summary_label", "summary",
      "city", "work", "cost", "payment", "result", "next_contact">>
Shown ==
    [header |-> <<>>,
     direction |-> <<CallTypeStr(note_args.call_type),
                     DurationStr(note_args.duration_seconds)>>,
     speakers |-> <<>>,
     manager |-> <<analysis.manager_name>>,
     client |-> <<analysis.client_name>>,
     summary_label |-> <<>>,
     summary |-> <<analysis.summary>>,
     city |-> <<analysis.client_city>>,
     work |-> <<analysis.work_type>>,
     cost |-> <<analysis.cost>>,
     payment |-> <<analysis.payment_terms>>,
     result |-> <<analysis.call_result>>,
     next_contact |-> <<analysis.next_contact_date>>]

\* C29: the note has each of its sections once and in the fixed order, showing
\* the fields of the analysis; the steps section is there exactly when
\* next_steps is not empty, below all the others, one line per step in order,
\* and nothing follows it.
C29_NoteSections ==
    fn_pc = "formatted" =>
        /\ \A k \in 1..Len(Sections) :
              /\ Cardinality(LinesOf(Sections[k])) = 1
              /\ note_text[LineOf(Sections[k])].parts = Shown[Sections[k]]
              /\ k > 1 => LineOf(Sections[k - 1]) < LineOf(Sections[k])
        /\ LineOf("header") = 1
        /\ (LinesOf("steps") # {}) <=> (analysis.next_steps # <<>>)
        /\ LinesOf("steps") = {} =>
              /\ LinesOf("step") = {}
              /\ LineOf("next_contact") = Len(note_text)
        /\ LinesOf("steps") # {} =>
              /\ Cardinality(LinesOf("steps")) = 1
              /\ LineOf("steps") > LineOf("next_contact")
              /\ LinesOf("step") =
                    {LineOf("steps") + k : k \in 1..Len(analysis.next_steps)}
              /\ \A k \in 1..Len(analysis.next_steps) :
                    note_text[LineOf("steps") + k].parts = <<analysis.next_steps[k]>>
              /\ Len(note_text) = LineOf("steps") + Len(analysis.next_steps)

\* a note with two steps, of an incoming call of 2 min 5 sek
C29_Witness ==
    /\ fn_pc = "formatted"
    /\ analysis.next_steps = <<<<"b">>, <<"7">>>>
    /\ note_args = [call_type |-> "incoming", duration_seconds |-> 125]
    /\ note_text[LineOf("direction")].parts =
          <<<<"Vhodyashchij">>, <<"2", " min ", "5", " sek">>>>
    /\ note_text[Len(note_text)] = Line("step", <<<<"7">>>>)

\* ------------------------------------------------ _normalize_list_field ---
AllIn(t, class) == \A j \in 1..Len(t) : t[j] \in class

\* the text without the whitespace at its ends (empty for a blank text)
Stripped(t) ==
    IF NonBlank(t)
       THEN CHOOSE s \in {SubSeq(t, i, j) : i, j \in 1..Len(t)} : IsStripped(s, t)
       ELSE <<>>

\* m is a bullet, or digits followed by a closer (blanks may separate them)
IsMarker(m) ==
    \/ Len(m) = 1 /\ m[1] \in Bullets
    \/ /\ Len(m) >= 2 /\ m[Len(m)] \in Closers
       /\ \E d \in 1..(Len(m) - 1) :
             /\ AllIn(SubSeq(m, 1, d), DigitChars)
             /\ AllIn(SubSeq(m, d + 1, Len(m) - 1), Spaces)

\* the lengths n such that s starts with a marker and whitespace, n characters
\* in all, and goes on with text
MarkedUpTo(s) ==
    {n \in 2..(Len(s) - 1) :
        /\ ~IsSpace(s[n + 1])
        /\ \E c \in 1..(n - 1) :
              IsMarker(SubSeq(s, 1, c)) /\ AllIn(SubSeq(s, c + 1, n), Spaces)}

\* t is the item of the line: the stripped line, without its leading bullet or
\* numbering when it has one
IsItemOfLine(t, line) ==
    LET s == Stripped(line) IN
    IF MarkedUpTo(s) = {} THEN t = s
    ELSE \A n \in MarkedUpTo(s) : t = SubSeq(s, n + 1, Len(s))

\* the lines of the string: where each one starts, and its text
LineStarts ==
    {i \in 1..Len(value.chars) : i = 1 \/ value.chars[i - 1] = "\n"}
LineFrom(i) ==
    LET stop == CHOOSE j \in i..(Len(value.chars) + 1) :
                   /\ j = Len(value.chars) + 1 \/ value.chars[j] = "\n"
                   /\ \A k \in i..(j - 1) : value.chars[k] # "\n"
    IN  SubSeq(value.chars, i, stop - 1)
NonBlankLines == {i \in LineStarts : NonBlank(LineFrom(i))}
KthLine(k) == CHOOSE i \in NonBlankLines : Cardinality({j \in NonBlankLines : j <= i}) = k

\* the non-blank items of the list, and the k-th of them
NonBlankItems == {i \in 1..Len(value.list) : NonBlank(Str(value.list[i]))}
KthItem(k) == CHOOSE i \in NonBlankItems : Cardinality({j \in NonBlankItems : j <= i}) = k

\* C28: _normalize_list_field gives the empty list for None; for a list the
\* stripped texts of its non-blank items, in order; for a string one item per
\* non-blank line, in order, each the stripped line without its leading bullet
\* ('-' or the bullet sign followed by whitespace) or numbering (digits and
\* ')' or '.' followed by whitespace). No item is empty or only whitespace.
C28_Normalized ==
    fn_pc = "normalized" =>
        /\ \A k \in 1..Len(items) : NonBlank(items[k])
        /\ value.type = "none" => items = <<>>
        /\ value.type = "list" =>
              /\ Len(items) = Cardinality(NonBlankItems)
              /\ \A k \in 1..Len(items) : IsStripped(items[k], Str(value.list[KthItem(k)]))
        /\ value.type = "str" =>
              /\ Len(items) = Cardinality(NonBlankLines)
              /\ \A k \in 1..Len(items) : IsItemOfLine(items[k], LineFrom(KthLine(k)))

\* "* a" and "1" on two lines give "a" and "1"
C28_Witness ==
    /\ fn_pc = "normalized"
    /\ value = StrValue(<<"*", " ", "a", "\n", "1">>)
    /\ items = <<<<"a">>, <<"1">>>>

\* --------------------------------------------- is_already_processed, frame ---
\* a call of run r returns with this step
ReturnsNow(r, result) == dup[r] = NoResult /\ dup'[r] = result

\* the step is the whole call of a run outside Runs, which returns False
OtherCallNow == pc' = pc /\ strangers' # strangers

C32_FoundDealIsUsed ==
    \A r \in Runs :
       (IsContactType(args[r].entity_type) /\ resolved[r] # Unresolved /\ Truthy(resolved[r]))
          => /\ lead_id[r] = resolved[r]
             /\ target_entity_type[r] = "leads"
             /\ pc[r] = "aborted" => stages[r] # <<>>

\* the deals the runs have created
DealsCreated == {created[r] : r \in Runs} \ {None}

\* the deals that were linked to the contact before any run created one
LinkedBefore ==
    LET Old(d) == d \notin DealsCreated IN SelectSeq(links, Old)

\* C31: for a contact without an open deal, the concurrent runs with distinct
\* recording URLs create at most one deal in total (a run that resolves after
\* the creation by another run finds the created deal open and creates none).
C31_OneDealCreated ==
    (/\ OpenAt(LinkedBefore) = {}
     /\ \A a, b \in Runs :
           (a # b /\ args[a] # NoArgs /\ args[b] # NoArgs)
              => args[a].record_url # args[b].record_url)
       => Cardinality(DealsCreated) <= 1

\* the runs that have been scheduled
Scheduled == {r \in Runs : pc[r] # "idle"}

\* C34: one delivery to the webhook schedules at most one process_call, and
\* only when the delivery names an element id and an entity type, a note was
\* found, its type is call_in or call_out and its recording link is not
\* empty; in every other case no run starts.
C34_OneTaskForACall ==
    /\ Cardinality(Scheduled) <= 1
    /\ \A r \in Scheduled :
          /\ Truthy(body.element_id) /\ body.entity_type # "none"
          /\ note_data \notin {NoNoteData, NoneNote}
          /\ note_data.note_type \in {"call_in", "call_out"}
          /\ note_data.link # NoLink
          /\ args[r] = [entity_type |-> body.entity_type,
                        entity_id |-> body.element_id,
                        record_url |-> note_data.link]
    /\ (hook_pc = "done" /\ response.status # "processing") => Scheduled = {}

\* an incoming call with a recording was delivered and its run has started
C34_Witness ==
    /\ response.status = "processing"
    /\ note_data.note_type = "call_in"
    /\ \E r \in Runs : pc[r] \notin {"idle", "dedup_lock"} /\ args[r].record_url = note_data.link

\* C33: whenever a run has called the analysis, the formatted transcript it
\* passed is not empty and has one role-labelled line per utterance of the
\* transcription, also when the transcription came with a full text of at
\* least 50 characters and without utterances.
C33_TranscriptPassed ==
    \A r \in Runs :
       calls[r]["analyze"] > 0
          => /\ formatted_transcript[r] # <<>>
             /\ Len(formatted_transcript[r]) = Len(run_speakers[r])
             /\ \A i \in DOMAIN formatted_transcript[r] :
                   /\ formatted_transcript[r][i].role \in {Manager_, Client_}
                   /\ formatted_transcript[r][i].text = run_speakers[r][i].text

\* the stages of a run from the transcription on
FromTranscription(q) == IF q # <<>> /\ Head(q) = "download" THEN Tail(q) ELSE q

\* the calls of both runs returned the same, or raised at the same place
SameAnswers(a, u) ==
    /\ full_text[a] = full_text[u]
    /\ run_speakers[a] = run_speakers[u]
    /\ result_text[a] = result_text[u]
    /\ raised[a] = raised[u]

\* C37: from the transcription to the note write the upload path goes
\* through the stages and gates of process_call: a text below 50 characters
\* ends the run before the roles are identified, the note goes to the given
\* deal as entity type leads and only after the analysis succeeded, a
\* process_call run given the same answers shows the same stages and the same
\* outcome, and an upload run whose transcription, analysis and note write
\* succeeded goes on to the notification and completes.
C37_UploadLikeCall ==
    \A u \in UploadRuns :
       /\ (full_text[u] # NoLen /\ TooShort(full_text[u]))
             => pc[u] = "aborted" /\ stages[u] = <<"transcribe">>
       /\ note[u] # NoNote
             => /\ note[u] = [entity_type |-> "leads", entity_id |-> lead_id[u]]
                /\ result_text[u] \in Responses /\ YieldsAnalysis(result_text[u])
                /\ formatted_transcript[u] # NoLines
       /\ \A a \in OneRun :
             (Ended(a) /\ Ended(u) /\ full_text[a] # NoLen /\ SameAnswers(a, u))
                => /\ FromTranscription(stages[a]) = stages[u]
                   /\ pc[a] = pc[u]
                   /\ formatted_transcript[a] = formatted_transcript[u]
                   /\ (note[a] # NoNote) <=> (note[u] # NoNote)
       /\ note[u] # NoNote => pc[u] \in {"telegram", "done"}

\* the tasks that passed _dedup with the key of task t
Passed(t) ==
    {o \in GeoTasks : geo_dup[o] = "False" /\ DedupKey(payload[o]) = DedupKey(payload[t])}

\* task t ended without a message: its phone was not determined, or a call
\* up to the send raised
Unsent(t) == geo_pc[t] = "raised" /\ ~geo_sent[t]

\* C38: for one dedup key at most one message is sent while the key stays in
\* the set, the history note is written only after the send succeeded, and
\* the redelivery of a delivery whose send failed or whose geodesist phone
\* was not determined is skipped, its key being marked already.
C38_OneMessagePerKey ==
    /\ \A t, o \in GeoTasks :
          (t # o /\ o \in Passed(t) /\ t \in Passed(t)) => cleared[t] \/ cleared[o]
    /\ \A t \in GeoTasks :
          /\ geo_sent[t] => geo_dup[t] = "False"
          /\ geo_note[t] => geo_sent[t]
          /\ geo_pc[t] = "skipped" => ~geo_sent[t] /\ ~geo_note[t]
    /\ \A t, o \in GeoTasks :
          (/\ o \in before[t] /\ Unsent(o) /\ ~cleared[o]
           /\ DedupKey(payload[o]) = DedupKey(payload[t])
           /\ geo_dup[t] # NoResult)
             => geo_pc[t] = "skipped"

\* the send of one delivery failed, or its phone was not determined, and its
\* redelivery was skipped
C38_Witness ==
    \E t, o \in GeoTasks :
       /\ o \in before[t] /\ Unsent(o) /\ ~cleared[o]
       /\ payload[o] = payload[t]
       /\ geo_pc[t] = "skipped"

\* the terminal outcomes: skipped as duplicate, aborted at a gate, failed
\* (logged by the except of main.py:251), completed after the notification
Outcomes == {"skipped", "aborted", "failed", "done"}

\* C36: every call returning or raising in the end, every run that was
\* scheduled ends, in exactly one of the outcomes skipped, aborted, failed or
\* completed after the notification, and stays there.
C36_EveryRunEnds ==
    \A r \in OneRun :
       /\ [](Ended(r) => pc[r] \in Outcomes)
       /\ \A o \in Outcomes : [](pc[r] = o => [](pc[r] = o))
       /\ (pc[r] # "idle") ~> (pc[r] \in Outcomes)
====
